---- MODULE Spec2Model ----
(***************************************************************************)
(* The agentic podcast system: the circuit breaker and its registry        *)
(* (utils/circuit-breaker.js), the retry policy (utils/retry.js), the      *)
(* timeout guard (utils/timeout.js), the search and scrape tools that nest *)
(* the three (tools/observer.js, tools/web-scraper.js), and the workflow   *)
(* with its progress tracker (orchestrator/).                              *)
(*                                                                         *)
(* JavaScript runs every stretch of code between two awaits to completion, *)
(* so one action is one such stretch: an execute call up to its first      *)
(* await, the continuation after the awaited operation settles, and so on. *)
(* Concurrent callers (the batch runner starts several channel agents that *)
(* all search through the same breaker) interleave at the awaits only.     *)
(***************************************************************************)
EXTENDS Integers, Sequences, FiniteSets, Bags, TLC

\* ------------------------------------------------------------------ bounds
MaxCallers == 2      \* execute calls in flight at one time
MaxThreshold == 3    \* configured thresholds 1..MaxThreshold
Cooldown == 2        \* the configured cooldown, in clock ticks
MaxSuccess == 2      \* cap on successCount
\* cap on failureCount
MaxCount == MaxThreshold + 1
\* the clock runs 0..MaxTime
MaxTime == Cooldown + 1
MaxBudget == 2       \* timeoutMs ranges over 1..MaxBudget
MaxElapsed == MaxBudget + 1
MaxItems == 4        \* the context has 0..MaxItems channels
MaxLimit == 2        \* config.concurrencyLimit ranges over 1..MaxLimit
MaxSections == 2     \* a plan of the planner has 0..MaxSections sections
DeterministicCap == 5
MaxRetries == 4      \* options.maxRetries ranges over 0..MaxRetries
MaxCallbacks == 2    \* 0..MaxCallbacks progress callbacks are registered
MaxWatched == 2      \* the watched workflow has 0..MaxWatched channels
MaxQuota == 3        \* searchMax and scrapeMax range over 0..MaxQuota
MaxInvocations == 4  \* each budgeted tool is invoked at most this often

Services == {"tavily", "scraping"}

\* circuit-breaker.js STATES
STATES == [CLOSED |-> "CLOSED", OPEN |-> "OPEN", HALF_OPEN |-> "HALF_OPEN"]

\* lastFailureTime = null
Null == -1

VARIABLES
  now,       \* Date.now()
  config,    \* config.circuitBreakerThreshold / circuitBreakerTimeout
  breakers,  \* CircuitBreakerManager.breakers: a Map name -> CircuitBreaker
  calls,     \* the execute calls in flight (a bag: calls carry no identity)
  hist,      \* history per service (observation only)
  last,      \* the step just taken and the registry before it (observation only)
  rt,        \* one retry() call: its options, locals and position
  ri,        \* one retryIf() call: its options, locals and position
  tm,        \* one withTimeout() call: its timer, its operation, its outcome
  wf,        \* one PodcastWorkflow: its context, stages, items and results
  twin,      \* the same workflow run without progress callbacks
  tl,        \* one search() or scrape() call
  bt         \* the two tools of one getAllToolsWithBudget() call

breakerVars == <<now, config, breakers, calls, hist, last>>
vars == <<breakerVars, rt, ri, tm, wf, twin, tl, bt>>
\* what the steps of the breaker, of retry, of retryIf, of withTimeout, of
\* the workflow and of the workflow with its twin leave alone
restOfBreaker == <<rt, ri, tm, wf, twin, tl, bt>>
restOfRetry == <<breakerVars, ri, tm, wf, twin, tl, bt>>
restOfRetryIf == <<breakerVars, rt, tm, wf, twin, tl, bt>>
restOfTimeout == <<breakerVars, rt, ri, wf, twin, tl, bt>>
restOfWorkflow == <<breakerVars, rt, ri, tm, twin, tl, bt>>
restOfObserved == <<breakerVars, rt, ri, tm, tl, bt>>

\* ------------------------------------------------------- CircuitBreaker
\* constructor(serviceName, options = {})
NewBreaker(cfg, t) ==
  [ threshold       |-> cfg.circuitBreakerThreshold,
    timeout         |-> cfg.circuitBreakerTimeout,
    state           |-> STATES.CLOSED,
    failureCount    |-> 0,
    lastFailureTime |-> Null,
    nextAttemptTime |-> t,
    successCount    |-> 0 ]

\* transitionToOpen()
transitionToOpen(b, t) ==
  [b EXCEPT !.state = STATES.OPEN, !.nextAttemptTime = t + b.timeout]

\* mutant: line 140 is missing, the state stays OPEN
transitionToHalfOpenKeepsState(b) == [b EXCEPT !.successCount = 0]

\* transitionToHalfOpen()
transitionToHalfOpen(b) ==
  [b EXCEPT !.state = STATES.HALF_OPEN, !.successCount = 0]

\* mutant: reset() leaves failureCount as it is
resetKeepsCount(b) ==
  [b EXCEPT !.state = STATES.CLOSED, !.successCount = 0, !.lastFailureTime = Null]

\* reset()
reset(b) ==
  [b EXCEPT !.state = STATES.CLOSED, !.failureCount = 0,
            !.successCount = 0, !.lastFailureTime = Null]

Max(a, b) == IF a >= b THEN a ELSE b
Min(a, b) == IF a <= b THEN a ELSE b

\* mutant: the decay has neither the guard `failureCount > 0` nor the floor
onSuccessNoFloor(b) ==
  LET b1 == [b EXCEPT !.successCount = @ + 1] IN
  IF b1.state = STATES.HALF_OPEN THEN reset(b1)
  ELSE IF b1.state = STATES.CLOSED
       THEN [b1 EXCEPT !.failureCount = b1.failureCount - 1]
       ELSE b1

\* mutant: any success outside CLOSED closes the circuit
onSuccessClosesOpen(b) ==
  LET b1 == [b EXCEPT !.successCount = @ + 1] IN
  IF b1.state # STATES.CLOSED THEN reset(b1)
  ELSE IF b1.failureCount > 0
       THEN [b1 EXCEPT !.failureCount = Max(0, b1.failureCount - 1)]
       ELSE b1

\* onSuccess()
onSuccess(b) ==
  LET b1 == [b EXCEPT !.successCount = @ + 1] IN
  IF b1.state = STATES.HALF_OPEN THEN reset(b1)
  ELSE IF b1.state = STATES.CLOSED /\ b1.failureCount > 0
       THEN [b1 EXCEPT !.failureCount = Max(0, b1.failureCount - 1)]
       ELSE b1

\* mutant: the threshold test is `>` instead of `>=`
onFailureStrict(b, t) ==
  LET b1 == [b EXCEPT !.failureCount = @ + 1, !.lastFailureTime = t] IN
  IF b1.state = STATES.HALF_OPEN THEN transitionToOpen(b1, t)
  ELSE IF b1.failureCount > b1.threshold THEN transitionToOpen(b1, t)
       ELSE b1

\* onFailure(error)
onFailure(b, t) ==
  LET b1 == [b EXCEPT !.failureCount = @ + 1, !.lastFailureTime = t] IN
  IF b1.state = STATES.HALF_OPEN THEN transitionToOpen(b1, t)
  ELSE IF b1.failureCount >= b1.threshold THEN transitionToOpen(b1, t)
       ELSE b1

\* mutant: the cooldown test is `<=` instead of `<`
circuitBlocksInclusive(b, t) == b.state = STATES.OPEN /\ t <= b.nextAttemptTime

\* mutant: the cooldown test is inverted
circuitBlocksInverted(b, t) == b.state = STATES.OPEN /\ t > b.nextAttemptTime

\* execute(), lines 44-45: the circuit is open and the cooldown has not expired
circuitBlocks(b, t) == b.state = STATES.OPEN /\ t < b.nextAttemptTime

\* execute(), lines 44-62, for a call that is let through: an expired OPEN
\* circuit moves to HALF_OPEN before the operation is invoked
admit(b) == IF b.state = STATES.OPEN THEN transitionToHalfOpen(b) ELSE b

\* mutant: the fallback is used after every failure
fallbackAfterAnyFailure(fb, b) == fb

\* execute(), line 72: after a recorded failure the fallback is used only if
\* the circuit is OPEN
fallbackAfterFailure(fb, b) == fb /\ b.state = STATES.OPEN

\* ------------------------------------------------ CircuitBreakerManager
\* mutant: a new CircuitBreaker is constructed on every call
getBreakerAlwaysNew(bs, s, cfg, t) ==
  [x \in DOMAIN bs \cup {s} |-> IF x = s THEN NewBreaker(cfg, t) ELSE bs[x]]

\* getBreaker(serviceName): the Map after the call
getBreaker(bs, s, cfg, t) ==
  IF s \in DOMAIN bs THEN bs
  ELSE [x \in DOMAIN bs \cup {s} |-> IF x = s THEN NewBreaker(cfg, t) ELSE bs[x]]

\* resetAll()
resetAll(bs) == [x \in DOMAIN bs |-> reset(bs[x])]

\* -------------------------------------------------------------- callers
\* an execute call in flight:
\*   pc         - "operation": awaiting operation(); "fallback": awaiting fallback()
\*   fb         - a fallback was passed
\*   invoked    - operation() has been called
\*   startState - the breaker's state when operation() was called (observation only)
Call(pc, s, fb, invoked, startState) ==
  [pc |-> pc, service |-> s, fb |-> fb, invoked |-> invoked,
   startState |-> startState]

NoCall == Call("none", "none", FALSE, FALSE, "none")

Add(bag, k) == bag (+) SetToBag({k})
Remove(bag, k) == bag (-) SetToBag({k})
InFlight == BagToSet(calls)

\* ---------------------------------------------------------- observation
\* hist[s] records, for the breaker of service s:
\*   streak   - failures recorded since the last recorded success or reset
\*   openedAt - the time the breaker last went from not OPEN to OPEN
\*   settled  - an operation settled on the breaker since then
\*   probes   - executions of line 61 (transitionToHalfOpen) since then
\*   cut      - reset() ended the current cooldown early
\* The last four are cleared when the breaker is CLOSED again.
HistInit ==
  [streak |-> 0, openedAt |-> Null, settled |-> FALSE, probes |-> 0, cut |-> FALSE]

\* history after a step of the given kind that took the breaker from b to b2:
\* "enter" | "probe" (an enter that ran line 61) | "success" | "failure" | "reset"
HistAfter(h, kind, b, b2, t) ==
  LET h1 == CASE kind = "failure" -> [h EXCEPT !.streak = @ + 1, !.settled = TRUE]
              [] kind = "success" -> [h EXCEPT !.streak = 0, !.settled = TRUE]
              [] kind = "reset"   -> [h EXCEPT !.streak = 0]
              [] kind = "probe"   -> [h EXCEPT !.probes = @ + 1]
              [] OTHER            -> h
  IN IF b.state # STATES.OPEN /\ b2.state = STATES.OPEN
     THEN [h1 EXCEPT !.openedAt = t, !.settled = FALSE, !.probes = 0, !.cut = FALSE]
     ELSE IF b2.state = STATES.CLOSED
          THEN [h1 EXCEPT !.openedAt = Null, !.settled = FALSE, !.probes = 0,
                          !.cut = (kind = "reset" /\ t < b.nextAttemptTime)
                                  \/ (h.cut /\ t < b.nextAttemptTime)]
          ELSE h1

\* the step being taken: its kind, the call it belongs to (for "enter" the
\* call as it starts, otherwise the call as it was before the step), how the
\* call ended if it ended, and the registry before the step
Step(kind, call, outcome) ==
  [kind |-> kind, call |-> call, outcome |-> outcome, pre |-> breakers]

\* ----------------------------------------------------------------- retry
\* errors an attempt can fail with
Errors == {"ECONNRESET", "TIMEOUT", "HTTP_404", "HTTP_500"}

\* lastError before any attempt failed
Undefined == "undefined"

\* options.baseDelay / options.maxDelay in seconds: the defaults of retry.js
\* (1, 10) and the values its callers pass (web-scraper.js: 1, 3;
\* observer.js: 2)
BaseDelays == {1, 2}
MaxDelays == {3, 10}

RECURSIVE Pow2(_)
Pow2(n) == IF n = 0 THEN 1 ELSE 2 * Pow2(n - 1)

\* retry.js line 52
backoff(r) == Min(r.baseDelay * Pow2(r.attempt), r.maxDelay)

\* retry(operation, options) before its first statement
\*   invoked - how many times operation() has been called
\*   errors  - the errors of the failed attempts, in order (observation only)
\*   waits   - the delays slept, in order (observation only)
RetryCall(maxRetries, baseDelay, maxDelay, hasOnRetry) ==
  [ pc |-> "start", maxRetries |-> maxRetries, baseDelay |-> baseDelay,
    maxDelay |-> maxDelay, onRetry |-> hasOnRetry,
    attempt |-> 0, lastError |-> Undefined,
    invoked |-> 0, errors |-> <<>>, waits |-> <<>>,
    outcome |-> "none", result |-> 0, thrown |-> Undefined ]

\* no retry() call is made
NoRetry == RetryCall(0, 1, 3, FALSE)

\* retry.js line 34: the loop test; when it holds, line 36 calls operation(),
\* otherwise lines 73-74 throw lastError
retryLoop(r) ==
  IF r.attempt < r.maxRetries
  THEN [r EXCEPT !.pc = "operation", !.invoked = @ + 1]
  ELSE [r EXCEPT !.pc = "done", !.outcome = "threw", !.thrown = r.lastError]

\* mutant: lastError keeps the first error
retryCatchKeepsFirst(r, e) ==
  LET r1 == [r EXCEPT !.lastError = IF @ = Undefined THEN e ELSE @,
                      !.errors = Append(@, e)] IN
  IF r1.attempt = r1.maxRetries - 1
  THEN [r1 EXCEPT !.pc = "done", !.outcome = "threw", !.thrown = r1.lastError]
  ELSE IF r1.onRetry THEN [r1 EXCEPT !.pc = "onRetry"]
       ELSE [r1 EXCEPT !.pc = "sleep", !.waits = Append(@, backoff(r1))]

\* mutant: the catch block has no `break` on the last attempt
retryCatchNoBreak(r, e) ==
  LET r1 == [r EXCEPT !.lastError = e, !.errors = Append(@, e)] IN
  IF r1.onRetry THEN [r1 EXCEPT !.pc = "onRetry"]
  ELSE [r1 EXCEPT !.pc = "sleep", !.waits = Append(@, backoff(r1))]

\* retry.js lines 43-69: operation() rejected with e; up to the throw after
\* the `break`, `await onRetry(...)` or `await sleep(delay)`
retryCatch(r, e) ==
  LET r1 == [r EXCEPT !.lastError = e, !.errors = Append(@, e)] IN
  IF r1.attempt = r1.maxRetries - 1
  THEN [r1 EXCEPT !.pc = "done", !.outcome = "threw", !.thrown = r1.lastError]
  ELSE IF r1.onRetry THEN [r1 EXCEPT !.pc = "onRetry"]
       ELSE [r1 EXCEPT !.pc = "sleep", !.waits = Append(@, backoff(r1))]

\* retry.js lines 36-42: operation() resolved; the result of attempt k is k
retryReturn(r) ==
  [r EXCEPT !.pc = "done", !.outcome = "returned", !.result = r.invoked]

\* --------------------------------------------------------------- retryIf
\* the error a throwing shouldRetry callback rejects with
PredicateError == "PREDICATE_ERROR"

\* the predicate scrapeUrl passes (web-scraper.js lines 109-118): 401, 403,
\* 404 and 451 are final; timeouts, network errors and 5xx are retried
scrapeShouldRetry == {"ECONNRESET", "TIMEOUT", "HTTP_500"}

\* retryIf(operation, shouldRetry, options) before its first statement
\*   retryable - the errors shouldRetry answers true for
\*   verdicts  - the answers shouldRetry gave, in order (observation only)
RetryIfCall(maxRetries, baseDelay, maxDelay, retryable) ==
  [ pc |-> "start", maxRetries |-> maxRetries, baseDelay |-> baseDelay,
    maxDelay |-> maxDelay, retryable |-> retryable,
    attempt |-> 0, lastError |-> Undefined,
    invoked |-> 0, errors |-> <<>>, waits |-> <<>>, verdicts |-> <<>>,
    outcome |-> "none", result |-> 0, thrown |-> Undefined ]

\* no retryIf() call is made
NoRetryIf == RetryIfCall(0, 1, 3, {})

\* retry.js line 96: the loop test; when it holds, line 98 calls operation(),
\* otherwise line 128 throws lastError
retryIfLoop(r) ==
  IF r.attempt < r.maxRetries
  THEN [r EXCEPT !.pc = "operation", !.invoked = @ + 1]
  ELSE [r EXCEPT !.pc = "done", !.outcome = "threw", !.thrown = r.lastError]

\* retry.js lines 105-109: operation() rejected with e; up to
\* `await shouldRetry(error, attempt)`
retryIfCatch(r, e) ==
  [r EXCEPT !.pc = "shouldRetry", !.lastError = e, !.errors = Append(@, e)]

\* mutant: the answer of shouldRetry is not looked at
retryIfDecideIgnoresAnswer(r, shouldRetryError) ==
  LET r1 == [r EXCEPT !.verdicts = Append(@, shouldRetryError)] IN
  IF r1.attempt = r1.maxRetries - 1
  THEN [r1 EXCEPT !.pc = "done", !.outcome = "threw", !.thrown = r1.lastError]
  ELSE [r1 EXCEPT !.pc = "sleep", !.waits = Append(@, backoff(r1))]

\* retry.js lines 109-124 and 128: shouldRetry answered; `break` and throw
\* lastError, or compute the delay and `await sleep(delay)`
retryIfDecide(r, shouldRetryError) ==
  LET r1 == [r EXCEPT !.verdicts = Append(@, shouldRetryError)] IN
  IF ~shouldRetryError \/ r1.attempt = r1.maxRetries - 1
  THEN [r1 EXCEPT !.pc = "done", !.outcome = "threw", !.thrown = r1.lastError]
  ELSE [r1 EXCEPT !.pc = "sleep", !.waits = Append(@, backoff(r1))]

\* retry.js lines 98-104: operation() resolved; the result of attempt k is k
retryIfReturn(r) ==
  [r EXCEPT !.pc = "done", !.outcome = "returned", !.result = r.invoked]

\* ----------------------------------------------------------- withTimeout
\* the `context` labels the callers pass (observer.js line 177,
\* web-scraper.js line 106)
Contexts == {"Tavily search", "Web scraping"}

\* what the operation resolves with
Value == "value"

\* timeout.js lines 27-31: the error the timer rejects with
TimeoutError(timeoutMs, context) ==
  [code |-> "TIMEOUT", timeout |-> timeoutMs, context |-> context]

\* withTimeout(operation, timeoutMs, context) before its first statement
\*   timer      - "none", "armed", "fired" or "cleared"
\*   op         - the operation: "none", "pending", "resolved", "rejected"
\*   race       - whether the promise of Promise.race has settled
\*   opAt, opGave, firedAt, settled - observation only: when the operation
\*                settled and with what, when the timer fired, how often the
\*                call's promise settled
\*   guard      - the withTimeoutAndFallback call around it, if there is one:
\*                its position ("none", "withTimeout", "fallback", "done"),
\*                how often it called fallback(), and how it settled
WithTimeoutCall(timeoutMs, context) ==
  [ pc |-> "start", timeoutMs |-> timeoutMs, context |-> context,
    elapsed |-> 0, timer |-> "none", didTimeout |-> FALSE,
    op |-> "none", race |-> FALSE,
    outcome |-> "none", result |-> "none", error |-> "none",
    opAt |-> Null, opGave |-> "none", firedAt |-> Null, settled |-> 0,
    guard |-> [pc |-> "none", fallbackCalls |-> 0, outcome |-> "none",
               result |-> "none", error |-> "none"] ]

\* no withTimeout() call is made
NoTimeout == WithTimeoutCall(1, "Tavily search")

\* clearTimeout(timeoutId): cancels a timer that has not fired
clearTimeout(timer) == IF timer = "armed" THEN "cleared" ELSE timer

\* mutant: a later settlement replaces the outcome of the race
raceSettlesLastWins(c, outcome, result, error) ==
  [c EXCEPT !.pc = "done", !.race = TRUE, !.outcome = outcome,
            !.result = result, !.error = error, !.settled = @ + 1,
            !.timer = clearTimeout(@)]

\* timeout.js lines 36-51: one of the two promises of Promise.race settles.
\* The first settlement decides the race: `return result` or the rethrow
\* follows, through the `finally` that clears the timer. A promise settles
\* once: a later settlement of the other promise has no effect.
raceSettles(c, outcome, result, error) ==
  IF c.race THEN c
  ELSE [c EXCEPT !.pc = "done", !.race = TRUE, !.outcome = outcome,
                 !.result = result, !.error = error, !.settled = @ + 1,
                 !.timer = clearTimeout(@)]

\* timeout.js lines 38-42: the operation resolved; the timer is cleared
\* unless it has fired
operationResolved(c) ==
  IF c.timer # "none" /\ ~c.didTimeout
  THEN [c EXCEPT !.timer = clearTimeout(@)] ELSE c

\* what the fallback of withTimeoutAndFallback resolves with
FallbackValue == "fallback value"

\* the error the fallback rejects with
FallbackError == [code |-> "FALLBACK_FAILED", status |-> 0, text |-> "other"]

\* mutant: the fallback is called for every error
withTimeoutSettledAnyError(c) ==
  IF c.outcome = "returned"
  THEN [c EXCEPT !.guard.pc = "done", !.guard.outcome = "returned",
                 !.guard.result = c.result]
  ELSE [c EXCEPT !.guard.pc = "fallback", !.guard.fallbackCalls = @ + 1]

\* withTimeoutAndFallback, timeout.js lines 71-79: the awaited withTimeout
\* settled as c says; return its result, call the fallback for an error with
\* code 'TIMEOUT', or rethrow
withTimeoutSettled(c) ==
  IF c.outcome = "returned"
  THEN [c EXCEPT !.guard.pc = "done", !.guard.outcome = "returned",
                 !.guard.result = c.result]
  ELSE IF c.error.code = "TIMEOUT"
       THEN [c EXCEPT !.guard.pc = "fallback", !.guard.fallbackCalls = @ + 1]
       ELSE [c EXCEPT !.guard.pc = "done", !.guard.outcome = "threw",
                      !.guard.error = c.error]

\* line 76: the awaited fallback() resolved
fallbackResolved(c) ==
  [c EXCEPT !.guard.pc = "done", !.guard.outcome = "returned",
            !.guard.result = FallbackValue]

\* line 76: the awaited fallback() rejected with e, which leaves the catch
\* block
fallbackRejected(c, e) ==
  [c EXCEPT !.guard.pc = "done", !.guard.outcome = "threw", !.guard.error = e]

\* ------------------------------------------------------- PodcastWorkflow
\* the error a research, planner or writer call rejects with (the workflow
\* only reads error.message)
ResearchErrors == {"LLM_ERROR"}

\* durations at and around the limits of getValidationErrors (1 and 30)
Durations == {0, 1, 30, 31}

\* the number of sections of the planner's built-in plan
MinimalPlanSections == 3

\* what a planner completion holds: text that is not JSON, JSON without a
\* `sections` array, or a plan with 0..MaxSections sections
LlmOutputs ==
  {[json |-> FALSE, sections |-> Null], [json |-> TRUE, sections |-> Null]}
    \cup {[json |-> TRUE, sections |-> s] : s \in 0..MaxSections}

\* generateAgentFallback(channelId)
generateAgentFallback(channelId) == <<"fallback", channelId>>

NoEntry ==
  [channelId |-> 0, status |-> "none", method |-> "none",
   report |-> <<"none", 0>>, error |-> "none"]

\* one work item of the batch runner: its research call, the kinds of answer
\* its searches gave so far ("results", "fallback"), what the research threw
\* (observation only), and its result entry
IdleItem == [status |-> "idle", search |-> {}, threw |-> "none", entry |-> NoEntry]

\* mutant: search rethrows although the fallback is enabled
searchRethrows(useFallback, executed) == executed

\* search(), observer.js lines 96-116, given what breaker.execute did: it
\* returned Tavily's "results", it returned the "fallback" content (circuit
\* open), or it "threw" the error of searchWithTavily
search(useFallback, executed) ==
  IF executed = "threw" /\ useFallback THEN "fallback" ELSE executed

\* the result of ChannelAgent.research / deterministicChannelReport
researchResult(w, k) ==
  [channelId |-> w.ids[k], status |-> "success",
   method |-> IF w.deterministic THEN "deterministic" ELSE "agent",
   report |-> <<"report", w.ids[k]>>, error |-> "none"]

\* mutant: the error of a research leaves executeAgentWithFallback
executeAgentRethrows(w, k, e) ==
  IF e = "none" THEN researchResult(w, k)
  ELSE [NoEntry EXCEPT !.channelId = w.ids[k], !.status = "threw", !.error = e]

\* executeAgentWithFallback (lines 257-289) and the callback of
\* executeDeterministicWithConcurrency (lines 226-242): the research of item
\* k returned (e = "none") or threw e
executeAgentWithFallback(w, k, e) ==
  IF e = "none" THEN researchResult(w, k)
  ELSE [channelId |-> w.ids[k], status |-> "failed",
        method |-> IF w.deterministic THEN "deterministic" ELSE "fallback",
        report |-> generateAgentFallback(w.ids[k]), error |-> e]

\* the event types ProgressTracker emits
Events ==
  {"start", "stage_start", "stage_complete", "stage_failed", "progress",
   "complete", "failed"}

\* a registered callback, given by the event types it throws on: it always
\* returns, it throws on every event, it throws on stage_complete only
CallbackKinds == {{}, Events, {"stage_complete"}}

\* the error a throwing callback throws
CallbackError == "CALLBACK_ERROR"

\* the separator "\n\n" planAndWriteScript puts between two section texts
Sep == 0

\* new PodcastWorkflow(userContext), before execute()
\*   n, ids     - the context has n channels; ids[k] is the id of the k-th
\*                (1..n unless the context names a channel twice)
\*   limit      - config.concurrencyLimit
\*   stages, current - ProgressTracker.stages / currentStage (0: null)
\*   callbacks  - ProgressTracker.callbacks
\*   escaped    - the error that left a tracker operation, if any
\*   i          - the loop variable of the batch runner
\*   script     - the local `script` of planAndWriteScript: a sequence of
\*                tokens, the text of section j being <<j>> or empty
\*   results    - the result list of the batch runner
\*   finalScript - whether results.finalScript is stored (it is `script`)
\* observation only:
\*   events     - the events emitted, in order
\*   delivered  - the callback calls made, in order: callback cb was called
\*                with event number ev
\*   caught     - how many callback errors emit caught
\*   finished, outOfOrder - the items of the current group in the order they
\*                settled; whether an item ever settled before one listed
\*                ahead of it
\*   emptyRounds - the parity of the number of rounds of the batch loop that
\*                were run with an empty group
\*   completions - whether each completion of the planner was valid JSON
\*   customThrew - what the research of the custom agent threw
\*   synthesisThrew - what the planner or the writer threw
\*   inputs, texts - the currentScript passed to each writer call and the
\*                text each returned, in order
WorkflowCall(n, customRequests, duration, deterministic, limit) ==
  [ pc |-> "start", n |-> n, ids |-> [k \in 1..n |-> k],
    customRequests |-> customRequests,
    duration |-> duration, deterministic |-> deterministic, limit |-> limit,
    stages |-> <<>>, current |-> 0,
    callbacks |-> <<>>, escaped |-> "none",
    events |-> <<>>, delivered |-> <<>>, caught |-> 0,
    items |-> [k \in 1..n |-> IdleItem], i |-> 0,
    finished |-> <<>>, outOfOrder |-> FALSE, emptyRounds |-> 0,
    results |-> <<>>, channelReports |-> <<>>,
    custom |-> "none", customThrew |-> "none", synthesisThrew |-> "none",
    customReport |-> [status |-> "none", error |-> "none"],
    llmCalls |-> 0, completions |-> <<>>, plan |-> "none", sections |-> 0,
    writerCalls |-> 0, written |-> 0, script |-> <<>>,
    inputs |-> <<>>, texts |-> <<>>, finalScript |-> FALSE,
    outcome |-> "none", error |-> "none" ]

\* no workflow is run
NoWorkflow == WorkflowCall(0, 0, 5, FALSE, 1)

\* workflow.onProgress(callback), progress-tracker.js lines 24-26
onProgress(w, callback) == [w EXCEPT !.callbacks = Append(@, callback)]

\* an event of the given type about the given stage ("none": no stage)
Event(type, stage) == [type |-> type, stage |-> stage]

\* mutant: the try/catch is around the loop, a throw ends the delivery
RECURSIVE emitStopsFrom(_, _, _)
emitStopsFrom(w, event, j) ==
  IF j > Len(w.callbacks) THEN w
  ELSE LET w1 == [w EXCEPT !.delivered =
                     Append(@, [cb |-> j, ev |-> Len(w.events)])] IN
       IF event.type \in w.callbacks[j]
       THEN [w1 EXCEPT !.caught = @ + 1]
       ELSE emitStopsFrom(w1, event, j + 1)

emitStopsAtThrow(w, event) ==
  emitStopsFrom([w EXCEPT !.events = Append(@, event)], event, 1)

\* mutant: there is no try/catch, the callback's error leaves emit
RECURSIVE emitUncaughtFrom(_, _, _)
emitUncaughtFrom(w, event, j) ==
  IF j > Len(w.callbacks) THEN w
  ELSE LET w1 == [w EXCEPT !.delivered =
                     Append(@, [cb |-> j, ev |-> Len(w.events)])] IN
       IF event.type \in w.callbacks[j]
       THEN [w1 EXCEPT !.escaped = CallbackError]
       ELSE emitUncaughtFrom(w1, event, j + 1)

emitUncaught(w, event) ==
  emitUncaughtFrom([w EXCEPT !.events = Append(@, event)], event, 1)

\* emit, lines 182-188: the loop over the callbacks from the j-th on; an
\* error of a callback is caught and logged
RECURSIVE emitFrom(_, _, _)
emitFrom(w, event, j) ==
  IF j > Len(w.callbacks) THEN w
  ELSE LET w1 == [w EXCEPT !.delivered =
                     Append(@, [cb |-> j, ev |-> Len(w.events)])] IN
       IF event.type \in w.callbacks[j]
       THEN emitFrom([w1 EXCEPT !.caught = @ + 1], event, j + 1)
       ELSE emitFrom(w1, event, j + 1)

\* ProgressTracker.emit(event, data)
emit(w, event) ==
  emitFrom([w EXCEPT !.events = Append(@, event)], event, 1)

\* an error left the tracker operation that produced w
raised(w) == w.escaped # "none"

\* ProgressTracker.start()
start(w) == emit([w EXCEPT !.stages = <<>>, !.current = 0], Event("start", "none"))

\* ProgressTracker.beginStage / completeStage / failStage
beginStage(w, name) ==
  emit([w EXCEPT !.stages = Append(@, [name |-> name, status |-> "in_progress"]),
                 !.current = Len(w.stages) + 1],
       Event("stage_start", name))

\* mutant: the stage keeps its status
completeStageKeepsStatus(w) ==
  IF w.current = 0 THEN w
  ELSE LET w1 == emit(w, Event("stage_complete", w.stages[w.current].name))
       IN IF raised(w1) THEN w1 ELSE [w1 EXCEPT !.current = 0]

completeStage(w) ==
  IF w.current = 0 THEN w
  ELSE LET w1 == emit([w EXCEPT !.stages[w.current].status = "completed"],
                      Event("stage_complete", w.stages[w.current].name))
       IN IF raised(w1) THEN w1 ELSE [w1 EXCEPT !.current = 0]

failStage(w) ==
  IF w.current = 0 THEN w
  ELSE LET w1 == emit([w EXCEPT !.stages[w.current].status = "failed"],
                      Event("stage_failed", w.stages[w.current].name))
       IN IF raised(w1) THEN w1 ELSE [w1 EXCEPT !.current = 0]

\* ProgressTracker.updateProgress(message, data)
updateProgress(w) ==
  emit(w, Event("progress",
                IF w.current = 0 THEN "none" ELSE w.stages[w.current].name))

\* execute, lines 83-87: the catch block: progress.fail(error), then execute
\* rejects with the error (with the callback's, should it leave progress.fail)
executeRejects(w, e) ==
  LET w1 == emit(w, Event("failed", "none")) IN
  [w1 EXCEPT !.pc = "done", !.outcome = "rejected",
             !.error = IF raised(w1) THEN w1.escaped ELSE e]

\* execute, lines 75-82: progress.complete(results), then execute resolves
executeResolves(w) ==
  LET w1 == emit(w, Event("complete", "none")) IN
  IF raised(w1) THEN executeRejects(w1, w1.escaped)
  ELSE [w1 EXCEPT !.pc = "done", !.outcome = "resolved"]

\* mutant: the catch block of the stage rethrows without failStage
stageFailsUnrecorded(w, e) == executeRejects(w, e)

\* the catch block of a stage (lines 177-180, 403-406), then that of execute
stageFails(w, e) ==
  LET w1 == failStage(w) IN
  executeRejects(w1, IF raised(w1) THEN w1.escaped ELSE e)

\* mutant: a section text is put in front of the script
joinInFront(script, text) ==
  IF script # <<>> THEN text \o <<Sep>> \o script ELSE text

\* planAndWriteScript, line 395:
\* script = script ? `${script}\n\n${sectionText}` : sectionText
join(script, text) ==
  IF script # <<>> THEN script \o <<Sep>> \o text ELSE text

\* planAndWriteScript, lines 381-402: the loop over plan.sections, up to the
\* next `await writeOneSection(...)`, or to the end of execute
writeSections(w) ==
  IF w.written < w.sections
  THEN [w EXCEPT !.pc = "write", !.writerCalls = @ + 1,
                 !.inputs = Append(@, w.script)]
  ELSE LET w1 == completeStage([w EXCEPT !.finalScript = TRUE]) IN
       IF raised(w1) THEN stageFails(w1, w1.escaped) ELSE executeResolves(w1)

\* planAndWriteScript, lines 382-396: writeOneSection returned `text`; the
\* script grows, the progress is reported, the loop goes on
sectionWritten(w, text) ==
  LET w1 == updateProgress([w EXCEPT !.written = @ + 1,
                                     !.texts = Append(@, text),
                                     !.script = join(w.script, text)]) IN
  IF raised(w1) THEN stageFails(w1, w1.escaped) ELSE writeSections(w1)

\* planAndWriteScript, lines 377-381: planPodcast returned; a plan without a
\* `sections` array makes the loop header throw a TypeError
planReturned(w, plan, sections) ==
  IF sections = Null
  THEN stageFails([w EXCEPT !.synthesisThrew = "TypeError"], "TypeError")
  ELSE writeSections([w EXCEPT !.plan = plan, !.sections = sections])

\* createPlan, lines 229-235: the first completion is parsed; text that is
\* not JSON leads to the second `await this.llm.invoke(...)`
parseFirst(w, out) ==
  IF out.json THEN planReturned(w, "llm", out.sections)
  ELSE [w EXCEPT !.pc = "plan2", !.llmCalls = @ + 1]

\* mutant: the planner throws when the retry is not JSON either
parseRetryThrows(w, out) ==
  IF out.json THEN planReturned(w, "llm", out.sections)
  ELSE stageFails(w, "PlanningFailure")

\* createPlan, lines 246-263: the retry is parsed; text that is not JSON
\* is replaced by the built-in plan
parseRetry(w, out) ==
  IF out.json THEN planReturned(w, "llm", out.sections)
  ELSE planReturned(w, "minimal", MinimalPlanSections)

\* a completion of the planner arrived
plannerResponded(w, out) ==
  LET w1 == [w EXCEPT !.completions = Append(@, out.json)] IN
  IF w.pc = "plan1" THEN parseFirst(w1, out) ELSE parseRetry(w1, out)

\* llm.invoke of the planner, or writeOneSection, threw e
synthesisThrows(w, e) == stageFails([w EXCEPT !.synthesisThrew = e], e)

\* planAndWriteScript, lines 365-375, up to the first llm.invoke of createPlan
planAndWriteScript(w) ==
  LET w1 == beginStage(w, "plan_and_write") IN
  IF raised(w1) THEN executeRejects(w1, w1.escaped)
  ELSE [w1 EXCEPT !.pc = "plan1", !.llmCalls = 1]

\* runCustomAgent, lines 312-328, up to `await agent.research(...)`
runCustomAgent(w) ==
  IF w.customRequests = 0 THEN planAndWriteScript(w)
  ELSE LET w1 == beginStage(w, "run_custom_agent") IN
       IF raised(w1) THEN executeRejects(w1, w1.escaped)
       ELSE [w1 EXCEPT !.pc = "custom", !.custom = "running"]

\* mutant: the error of the custom agent fails the stage and the workflow
customSettledRethrows(w, e) ==
  LET w1 == [w EXCEPT !.custom = "settled", !.customThrew = e] IN
  IF e # "none" THEN stageFails(w1, e)
  ELSE LET w2 == completeStage([w1 EXCEPT !.customReport =
                                  [status |-> "success", error |-> e]]) IN
       IF raised(w2) THEN executeRejects(w2, w2.escaped)
       ELSE planAndWriteScript(w2)

\* runCustomAgent, lines 329-359: the research returned (e = "none") or
\* threw e; the stage completes either way
customSettled(w, e) ==
  LET w1 == completeStage(
              [w EXCEPT !.custom = "settled", !.customThrew = e,
                        !.customReport =
                           [status |-> IF e = "none" THEN "success" ELSE "failed",
                            error |-> e]]) IN
  IF raised(w1) THEN executeRejects(w1, w1.escaped)
  ELSE planAndWriteScript(w1)

\* ------------------------------------------------ getAllToolsWithBudget
\* one budgeted tool: its budget (searchMax / scrapeMax) and the counter of
\* the closure (searchCount / scrapeCount). Observation only:
\*   invoked - the invocations of the tool's func
\*   refused - those answered with the budget-exhausted message
\*   calls   - the calls of the underlying search() / scrape()
\*   pending - those of them that have not settled
BudgetedTool(max) ==
  [max |-> max, count |-> 0, invoked |-> 0, refused |-> 0, calls |-> 0,
   pending |-> 0]

\* getAllToolsWithBudget({ searchMax, scrapeMax })
getAllToolsWithBudget(searchMax, scrapeMax) ==
  [search |-> BudgetedTool(searchMax), scrape |-> BudgetedTool(scrapeMax)]

NoBudget == getAllToolsWithBudget(0, 0)

\* mutant: the budget is exhausted only once the counter is above it
budgetExhaustedAbove(t) == t.count > t.max

\* `if (searchCount >= searchMax)` (line 40), `if (scrapeCount >= scrapeMax)`
\* (line 58)
budgetExhausted(t) == t.count >= t.max

\* the func of a budgeted tool, up to its await: the message is returned, or
\* the counter is incremented and the underlying function called. There is
\* no await between the test and the increment
budgetedFunc(t) ==
  IF budgetExhausted(t)
  THEN [t EXCEPT !.invoked = @ + 1, !.refused = @ + 1]
  ELSE [t EXCEPT !.invoked = @ + 1, !.count = @ + 1, !.calls = @ + 1,
                 !.pending = @ + 1]

\* mutant: every item is started at once
batchLimitUnbounded(w) == w.n + 1

\* runChannelAgents: Math.min(config.concurrencyLimit, 5) for the
\* deterministic runner (line 138), config.concurrencyLimit otherwise (148)
batchLimit(w) ==
  IF w.deterministic THEN Min(w.limit, DeterministicCap) ELSE w.limit

\* Array.prototype.slice resolves an index against the length n: a negative
\* index counts from the end, and the result is clamped to 0..n
sliceIndex(x, n) == IF x < 0 THEN Max(n + x, 0) ELSE Min(x, n)

\* the items of agents.slice(i, i + concurrencyLimit)
batchOf(w) ==
  {k \in 1..w.n : /\ sliceIndex(w.i, w.n) < k
                  /\ k <= sliceIndex(w.i + batchLimit(w), w.n)}

\* the loop increment `i += concurrencyLimit`. Below -n every slice is the
\* same empty one, and i is kept there
nextIndex(w) ==
  IF w.i + batchLimit(w) < 0 - w.n THEN w.i ELSE w.i + batchLimit(w)

\* mutant: the stage fails when no research succeeded
storeResultsNeedsSuccess(w) ==
  IF \A j \in 1..Len(w.results) : w.results[j].status = "failed"
  THEN stageFails(w, "All agents failed")
  ELSE runCustomAgent(completeStage(
         [w EXCEPT !.channelReports = [j \in 1..Len(w.results) |-> w.results[j]]]))

\* runChannelAgents, lines 152-176: the results are stored by channel id (a
\* later entry replaces an earlier one of the same id), the stage completes
storeResults(w) ==
  LET at(id) == CHOOSE j \in 1..Len(w.results) :
                   /\ w.results[j].channelId = id
                   /\ \A j2 \in 1..Len(w.results) :
                         w.results[j2].channelId = id => j2 <= j
      ids == {w.results[j].channelId : j \in 1..Len(w.results)}
      w1 == completeStage(
              [w EXCEPT !.channelReports = [id \in ids |-> w.results[at(id)]]])
  IN IF raised(w1) THEN stageFails(w1, w1.escaped) ELSE runCustomAgent(w1)

\* lines 195-205: the progress is reported, the items of the group are
\* started, one after the other without an await in between, then
\* `await Promise.all(batchPromises)`
startBatch(w) ==
  LET w1 == updateProgress(w) IN
  IF raised(w1) THEN stageFails(w1, w1.escaped)
  ELSE [w1 EXCEPT !.pc = "batch", !.finished = <<>>,
                  !.items = [k \in 1..w.n |->
                               IF k \in batchOf(w)
                               THEN [w.items[k] EXCEPT !.status = "running"]
                               ELSE w.items[k]]]

\* line 194: the loop test; line 211: the runner returns its results
batchLoop(w) == IF w.i < w.n THEN startBatch(w) ELSE storeResults(w)

\* mutant: the results are pushed in the order the items settled
batchSettledInCompletionOrder(w) ==
  batchLoop([w EXCEPT !.results = @ \o [j \in 1..Len(w.finished) |->
                                          w.items[w.finished[j]].entry],
                      !.i = @ + batchLimit(w)])

\* lines 208-209 and the loop increment: Promise.all resolved with the
\* entries of the group in the order of the group
batchSettled(w) ==
  batchLoop([w EXCEPT !.results = @ \o [j \in 1..Cardinality(batchOf(w)) |->
                                          w.items[sliceIndex(w.i, w.n) + j].entry],
                      !.i = nextIndex(w)])

\* Promise.all of an empty group resolved: nothing is pushed and the loop
\* goes round. The progress event of the round that follows is left out of
\* the recorded events, which would grow with every round
emptyBatchSettled(w) ==
  LET w1 == batchSettled(w) IN
  [w1 EXCEPT !.events = w.events, !.delivered = w.delivered,
             !.emptyRounds = (w.emptyRounds + 1) % 2]

\* the research of item k returned (e = "none") or threw e. The promise of
\* the item settles; Promise.all rejects with the first rejection and
\* resolves when every promise of the group has resolved
researchSettled(w, k, e) ==
  LET entry == executeAgentWithFallback(w, k, e)
      w1 == [w EXCEPT !.items[k].status = "settled",
                      !.items[k].threw = e,
                      !.items[k].entry = entry,
                      !.finished = Append(@, k),
                      !.outOfOrder = @ \/ \E j \in batchOf(w) :
                                       j < k /\ w.items[j].status = "running"]
  IN IF w.pc # "batch" THEN w1
     ELSE IF entry.status = "threw" THEN stageFails(w1, e)
     ELSE IF \A j \in batchOf(w1) : w1.items[j].status = "settled"
          THEN batchSettled(w1)
          ELSE w1

\* runChannelAgents, lines 118-150
runChannelAgents(w) ==
  IF w.n = 0 THEN runCustomAgent(w)
  ELSE LET w1 == beginStage(w, "run_channel_agents") IN
       IF raised(w1) THEN executeRejects(w1, w1.escaped) ELSE batchLoop(w1)

\* mutant: validation lets every context pass
validateContextAcceptsAll(w) ==
  runChannelAgents(completeStage(beginStage(w, "validate_context")))

\* mutant: the stage is left in progress when the context is valid
validateContextNoComplete(w) ==
  LET w1 == beginStage(w, "validate_context") IN
  IF (w.n = 0 /\ w.customRequests = 0) \/ w.duration < 1 \/ w.duration > 30
  THEN executeRejects(w1, "Invalid user context")
  ELSE runChannelAgents(w1)

\* validateContext (lines 93-113) with getValidationErrors (part_005, lines
\* 103-115); a valid context leads on to runChannelAgents
validateContext(w) ==
  LET w1 == beginStage(w, "validate_context") IN
  IF raised(w1) THEN executeRejects(w1, w1.escaped)
  ELSE IF (w.n = 0 /\ w.customRequests = 0) \/ w.duration < 1 \/ w.duration > 30
  THEN executeRejects(w1, "Invalid user context")
  ELSE LET w2 == completeStage(w1) IN
       IF raised(w2) THEN executeRejects(w2, w2.escaped)
       ELSE runChannelAgents(w2)

\* execute, lines 57-72, up to the first await that waits for a remote call;
\* progress.start() is outside the try block
execute(w) ==
  LET w1 == start(w) IN
  IF raised(w1)
  THEN [w1 EXCEPT !.pc = "done", !.outcome = "rejected", !.error = w1.escaped]
  ELSE validateContext(w1)

\* ------------------------------------------------------ search / scrape
\* an error of an attempt, as far as the predicates look at it: error.code,
\* error.status (0: none) and whether error.message contains 'network' or
\* 'fetch'
FetchError(code, status, text) == [code |-> code, status |-> status, text |-> text]

\* web-scraper.js lines 89-93: the response is not ok
HttpError(status) == FetchError("none", status, "other")

\* the errors an attempt of the tools fails with, apart from the timeout:
\* HTTP statuses, errors of node-fetch with a code, an error by its message,
\* and 'No meaningful content extracted'
FetchErrors ==
  {HttpError(s) : s \in {401, 403, 404, 451, 429, 500, 503}}
    \cup {FetchError(c, 0, "other") : c \in {"ECONNRESET"}}
    \cup {FetchError("none", 0, "fetch"), FetchError("none", 0, "other")}

\* error.status, error.message of any error (a timeout error has no status)
statusOf(e) == IF "status" \in DOMAIN e THEN e.status ELSE 0
textOf(e) == IF "text" \in DOMAIN e THEN e.text ELSE "other"

\* retryPredicates, retry.js lines 141-179
isNetworkError(e) ==
  e.code \in {"ECONNRESET", "ENOTFOUND", "ETIMEDOUT"}
    \/ textOf(e) \in {"network", "fetch"}

isRateLimitError(e) == statusOf(e) = 429 \/ e.code = "RATE_LIMIT_EXCEEDED"

isServerError(e) == statusOf(e) >= 500 /\ statusOf(e) < 600

isTransientError(e) ==
  isNetworkError(e) \/ isRateLimitError(e) \/ isServerError(e)

\* the errors the default predicate is asked about: those of FetchErrors,
\* HTTP 400, the other codes and the message of isNetworkError and
\* isRateLimitError, and the error of withTimeout
ClassifiedErrors ==
  FetchErrors
    \cup {HttpError(400), FetchError("none", 0, "network")}
    \cup {FetchError(c, 0, "other") :
            c \in {"ENOTFOUND", "ETIMEDOUT", "RATE_LIMIT_EXCEEDED"}}
    \cup {TimeoutError(1, "Tavily search")}

\* mutant: the predicate retries every error
shouldRetryScrapeAlways(e) == TRUE

\* the predicate scrapeUrl passes to retryIf, web-scraper.js lines 109-118
shouldRetryScrape(e) ==
  IF statusOf(e) \in {401, 403, 404, 451} THEN FALSE
  ELSE IF e.code = "TIMEOUT" THEN TRUE
  ELSE isTransientError(e)

\* mutant: scrape rethrows although the fallback is enabled
scrapeRethrows(useFallback, executed) == executed

\* scrape(), web-scraper.js lines 45-63, given what breaker.execute did: it
\* returned the "results", it returned the "fallback", or it "threw"
scrape(useFallback, executed) ==
  IF executed = "threw" /\ useFallback THEN "fallback" ELSE executed

\* a search() or scrape() call before its first statement
\*   tool     - "search" (breaker 'tavily', retry) or "scrape" (breaker
\*              'scraping', retryIf)
\* observation only:
\*   consulted - how often the call tested the state of the breaker, and
\*              consultedAt: how many attempts had been made by then
\*   fetches, timers - the attempts made, the timeouts armed
\*   attempts - how each attempt ended: "ok", "timeout", "error"
\*   failed   - the error of the last attempt that failed
\*   onSuccessCalls, onFailureCalls - the calls of breaker.onSuccess/onFailure
\*   before   - the breaker when the call consulted it
ToolCall(tool, useFallback) ==
  [ pc |-> "start", tool |-> tool, useFallback |-> useFallback,
    consulted |-> 0, consultedAt |-> 0, fetches |-> 0, timers |-> 0,
    attempts |-> <<>>, failed |-> Undefined, onSuccessCalls |-> 0, onFailureCalls |-> 0,
    before |-> NewBreaker([circuitBreakerThreshold |-> 1,
                           circuitBreakerTimeout |-> Cooldown], 0),
    result |-> "none", error |-> "none" ]

\* no search() or scrape() call is made
NoTool == ToolCall("none", TRUE)

\* the breaker a tool goes through (observer.js line 97, web-scraper.js 43)
serviceOf(tool) == IF tool = "search" THEN "tavily" ELSE "scraping"

\* the state a tool call works on: the call, its breaker, its retry loop
\* (rt for search, ri for scrape), the timeout of its current attempt, and
\* the clock
Bundle(t, b, r, rif, c, time) ==
  [tl |-> t, b |-> b, rt |-> r, ri |-> rif, tm |-> c, now |-> time]

\* search() lines 104-116 / scrape() lines 52-63: breaker.execute returned
\* or threw, the tool returns or throws; the retry loop and the timeout of
\* the call are gone with it
toolReturns(x, executed, err) ==
  LET result == IF x.tl.tool = "search" THEN search(x.tl.useFallback, executed)
                ELSE scrape(x.tl.useFallback, executed) IN
  [x EXCEPT !.tl.pc = "done", !.tl.result = result,
            !.tl.error = IF result = "threw" THEN err ELSE "none",
            !.rt = NoRetry, !.ri = NoRetryIf, !.tm = NoTimeout]

\* breaker.execute, lines 65-67: the operation resolved
executeSucceeded(x) ==
  toolReturns([x EXCEPT !.b = onSuccess(x.b), !.tl.onSuccessCalls = @ + 1],
              "results", "none")

\* breaker.execute, lines 68-78: the operation rejected with err
executeFailed(x, err) ==
  LET x1 == [x EXCEPT !.b = onFailure(x.b, x.now), !.tl.onFailureCalls = @ + 1]
  IN IF fallbackAfterFailure(x.tl.useFallback, x1.b)
     THEN toolReturns(x1, "fallback", "none")
     ELSE toolReturns(x1, "threw", err)

\* searchWithTavily lines 131-178 / scrapeUrl lines 78-107: an attempt
\* starts: withTimeout arms its timer (1 tick) and calls fetch
startAttempt(x) ==
  [x EXCEPT !.tm = [WithTimeoutCall(1, IF x.tl.tool = "search"
                                       THEN "Tavily search" ELSE "Web scraping")
                      EXCEPT !.pc = "racing", !.timer = "armed", !.op = "pending"],
            !.tl.pc = "attempt", !.tl.fetches = @ + 1, !.tl.timers = @ + 1]

\* mutant: a failed attempt is reported to the breaker as well
attemptFailedCounts(x, err) ==
  LET x0 == [x EXCEPT !.tl.attempts = Append(@, IF err.code = "TIMEOUT" THEN "timeout"
                                                  ELSE "error"),
                      !.tl.failed = err,
                      !.b = onFailure(x.b, x.now),
                      !.tl.onFailureCalls = @ + 1] IN
  IF x.tl.tool = "search"
  THEN LET r == retryCatch(x0.rt, err) IN
       IF r.pc = "done" THEN executeFailed([x0 EXCEPT !.rt = r], r.thrown)
       ELSE [x0 EXCEPT !.rt = r, !.tl.pc = "sleep"]
  ELSE [x0 EXCEPT !.ri = retryIfCatch(x0.ri, err), !.tl.pc = "shouldRetry"]

\* the attempt rejected with err: the catch block of retry (search) or of
\* retryIf (scrape)
attemptFailed(x, err) ==
  LET x0 == [x EXCEPT !.tl.attempts = Append(@, IF err.code = "TIMEOUT" THEN "timeout"
                                                  ELSE "error"),
                      !.tl.failed = err] IN
  IF x.tl.tool = "search"
  THEN LET r == retryCatch(x0.rt, err) IN
       IF r.pc = "done" THEN executeFailed([x0 EXCEPT !.rt = r], r.thrown)
       ELSE [x0 EXCEPT !.rt = r, !.tl.pc = "sleep"]
  ELSE [x0 EXCEPT !.ri = retryIfCatch(x0.ri, err), !.tl.pc = "shouldRetry"]

\* the attempt resolved: retry / retryIf return, the breaker records it
attemptSucceeded(x) ==
  LET x0 == [x EXCEPT !.tl.attempts = Append(@, "ok")] IN
  IF x.tl.tool = "search"
  THEN executeSucceeded([x0 EXCEPT !.rt = retryReturn(x0.rt)])
  ELSE executeSucceeded([x0 EXCEPT !.ri = retryIfReturn(x0.ri)])

\* the race of the attempt's withTimeout has settled in c
attemptSettled(x, c) ==
  LET x1 == [x EXCEPT !.tm = c] IN
  IF c.outcome = "returned" THEN attemptSucceeded(x1)
  ELSE attemptFailed(x1, c.error)

\* retryIf: the predicate of scrapeUrl has answered
shouldRetryAnswered(x) ==
  LET r == retryIfDecide(x.ri, shouldRetryScrape(x.ri.lastError)) IN
  IF r.pc = "done" THEN executeFailed([x EXCEPT !.ri = r], r.thrown)
  ELSE [x EXCEPT !.ri = r, !.tl.pc = "sleep"]

\* retry / retryIf: the loop test, then the next attempt or the final throw
nextAttempt(x) ==
  IF x.tl.tool = "search"
  THEN LET r == retryLoop(x.rt) IN
       IF r.pc = "operation" THEN startAttempt([x EXCEPT !.rt = r])
       ELSE executeFailed([x EXCEPT !.rt = r], r.thrown)
  ELSE LET r == retryIfLoop(x.ri) IN
       IF r.pc = "operation" THEN startAttempt([x EXCEPT !.ri = r])
       ELSE executeFailed([x EXCEPT !.ri = r], r.thrown)

\* searchWithTavily (maxRetries 2, baseDelay 2 s, default maxDelay 10 s) /
\* scrapeUrl (maxRetries 2, baseDelay 1 s, maxDelay 3 s) up to the first fetch
operationCalled(x) ==
  IF x.tl.tool = "search"
  THEN nextAttempt([x EXCEPT !.rt = RetryCall(2, 2, 10, FALSE)])
  ELSE nextAttempt([x EXCEPT !.ri = RetryIfCall(2, 1, 3, {})])

\* search() / scrape() up to the first await: breaker.execute lines 44-65
toolEntered(x) ==
  LET x1 == [x EXCEPT !.tl.consulted = @ + 1, !.tl.consultedAt = x.tl.fetches,
                      !.tl.before = x.b] IN
  IF circuitBlocks(x.b, x.now)
  THEN IF x.tl.useFallback THEN toolReturns(x1, "fallback", "none")
       ELSE toolReturns(x1, "threw", "CIRCUIT_OPEN")
  ELSE operationCalled([x1 EXCEPT !.b = admit(x.b)])

BreakerInit ==
  /\ now = 0
  /\ config \in [circuitBreakerThreshold : 1..MaxThreshold,
                 circuitBreakerTimeout : {Cooldown}]
  /\ breakers = <<>>
  /\ calls = EmptyBag
  /\ hist = [s \in Services |-> HistInit]
  /\ last = [kind |-> "init", call |-> NoCall, outcome |-> "none", pre |-> <<>>]

Init == BreakerInit /\ rt = NoRetry /\ ri = NoRetryIf /\ tm = NoTimeout
        /\ wf = NoWorkflow /\ twin = NoWorkflow /\ tl = NoTool
        /\ bt = NoBudget

\* search()/scrape() up to the first await: getBreaker(name), then execute()
\* up to `await fallback()` (line 54), the throw of line 57, or
\* `await operation()` (line 65).
ExecuteEnter(s, fb) ==
  /\ BagCardinality(calls) < MaxCallers
  /\ LET bs == getBreaker(breakers, s, config, now)
         b == bs[s]
         blocked == Call("fallback", s, fb, FALSE, "none")
         started == Call("operation", s, fb, TRUE, admit(b).state)
     IN IF circuitBlocks(b, now)
        THEN /\ breakers' = bs
             /\ hist' = hist
             /\ calls' = IF fb THEN Add(calls, blocked) ELSE calls
             /\ last' = Step("enter", blocked,
                             IF fb THEN "none" ELSE "circuit_open")
        ELSE /\ breakers' = [bs EXCEPT ![s] = admit(b)]
             /\ hist' = [hist EXCEPT ![s] =
                  HistAfter(@, IF b.state = STATES.OPEN THEN "probe" ELSE "enter",
                            b, admit(b), now)]
             /\ calls' = Add(calls, started)
             /\ last' = Step("enter", started, "none")
  /\ UNCHANGED <<now, config, restOfBreaker>>

\* execute(), lines 65-67: the awaited operation of call k resolved
OperationSucceeds(k) ==
  /\ k \in InFlight /\ k.pc = "operation"
  /\ LET b == breakers[k.service]
     IN /\ b.successCount < MaxSuccess
        /\ breakers' = [breakers EXCEPT ![k.service] = onSuccess(b)]
        /\ hist' = [hist EXCEPT ![k.service] =
                      HistAfter(@, "success", b, onSuccess(b), now)]
  /\ calls' = Remove(calls, k)
  /\ last' = Step("success", k, "result")
  /\ UNCHANGED <<now, config, restOfBreaker>>

\* execute(), lines 68-78: the awaited operation of call k rejected
OperationFails(k) ==
  /\ k \in InFlight /\ k.pc = "operation"
  /\ LET b == breakers[k.service]
         b2 == onFailure(b, now)
     IN /\ b.failureCount < MaxCount
        /\ breakers' = [breakers EXCEPT ![k.service] = b2]
        /\ hist' = [hist EXCEPT ![k.service] = HistAfter(@, "failure", b, b2, now)]
        /\ IF fallbackAfterFailure(k.fb, b2)
           THEN /\ calls' = Add(Remove(calls, k), [k EXCEPT !.pc = "fallback"])
                /\ last' = Step("failure", k, "none")
           ELSE /\ calls' = Remove(calls, k)
                /\ last' = Step("failure", k, "error")
  /\ UNCHANGED <<now, config, restOfBreaker>>

\* execute(), lines 54 and 74: the awaited fallback of call k resolved
FallbackReturns(k) ==
  /\ k \in InFlight /\ k.pc = "fallback"
  /\ calls' = Remove(calls, k)
  /\ last' = Step("fallback", k, "fallback")
  /\ UNCHANGED <<now, config, breakers, hist, restOfBreaker>>

\* CircuitBreakerManager.resetAll()
ResetAll ==
  /\ breakers # <<>>
  /\ breakers' = resetAll(breakers)
  /\ hist' = [s \in Services |->
                IF s \in DOMAIN breakers
                THEN HistAfter(hist[s], "reset", breakers[s], resetAll(breakers)[s], now)
                ELSE hist[s]]
  /\ last' = Step("reset", NoCall, "none")
  /\ UNCHANGED <<now, config, calls, restOfBreaker>>

\* the clock advances
Tick ==
  /\ now < MaxTime
  /\ now' = now + 1
  /\ last' = Step("tick", NoCall, "none")
  /\ UNCHANGED <<config, breakers, calls, hist, restOfBreaker>>

\* concurrent search() calls, all through the 'tavily' breaker, as the
\* repository runs them (nothing in it calls resetAll)
NextCalls ==
  \/ \E fb \in BOOLEAN : ExecuteEnter("tavily", fb)
  \/ \E k \in InFlight : OperationSucceeds(k)
  \/ \E k \in InFlight : OperationFails(k)
  \/ \E k \in InFlight : FallbackReturns(k)
  \/ Tick

SpecCalls == Init /\ [][NextCalls]_vars

\* the same with the manager's resetAll() called at any moment
Next ==
  \/ NextCalls
  \/ ResetAll

Spec == Init /\ [][Next]_vars

\* a search() or scrape() call with the default useFallback = true, made
\* while no other call is in flight
SequentialEnter(s) ==
  /\ calls = EmptyBag
  /\ ExecuteEnter(s, TRUE)

\* search() and scrape() calls one after the other: the 'tavily' and the
\* 'scraping' breaker of one registry
NextRegistry ==
  \/ \E s \in Services : SequentialEnter(s)
  \/ \E k \in InFlight : OperationSucceeds(k)
  \/ \E k \in InFlight : OperationFails(k)
  \/ \E k \in InFlight : FallbackReturns(k)
  \/ Tick

\* the registry under the largest configured threshold
RegistryInit == Init /\ config.circuitBreakerThreshold = MaxThreshold

SpecRegistry == RegistryInit /\ [][NextRegistry]_vars

\* ---------------------------------------------------------- retry steps
\* retry() is called: lines 23-36, up to the first `await operation()`
RetryStart ==
  /\ rt.pc = "start"
  /\ rt' = retryLoop(rt)
  /\ UNCHANGED restOfRetry

\* the awaited operation() resolved
AttemptSucceeds ==
  /\ rt.pc = "operation"
  /\ rt' = retryReturn(rt)
  /\ UNCHANGED restOfRetry

\* the awaited operation() rejected with e
AttemptFails(e) ==
  /\ rt.pc = "operation"
  /\ rt' = retryCatch(rt, e)
  /\ UNCHANGED restOfRetry

\* lines 60-66: the awaited onRetry callback resolved, or it rejected and the
\* error was caught and logged; line 69 starts the sleep either way
OnRetrySettles(threw) ==
  /\ rt.pc = "onRetry"
  /\ rt' = [rt EXCEPT !.pc = "sleep", !.waits = Append(@, backoff(rt))]
  /\ UNCHANGED restOfRetry

\* line 69: the sleep is over; attempt++ and the loop test of line 34
SleepEnds ==
  /\ rt.pc = "sleep"
  /\ rt' = retryLoop([rt EXCEPT !.attempt = @ + 1])
  /\ UNCHANGED restOfRetry

RetryInit ==
  /\ now = 0
  /\ config = [circuitBreakerThreshold |-> 1, circuitBreakerTimeout |-> Cooldown]
  /\ breakers = <<>>
  /\ calls = EmptyBag
  /\ hist = [s \in Services |-> HistInit]
  /\ last = [kind |-> "init", call |-> NoCall, outcome |-> "none", pre |-> <<>>]
  /\ \E m \in 0..MaxRetries, b \in BaseDelays, d \in MaxDelays, cb \in BOOLEAN :
        rt = RetryCall(m, b, d, cb)
  /\ ri = NoRetryIf
  /\ tm = NoTimeout
  /\ wf = NoWorkflow
  /\ twin = NoWorkflow
  /\ tl = NoTool
  /\ bt = NoBudget

NextRetry ==
  \/ RetryStart
  \/ AttemptSucceeds
  \/ \E e \in Errors : AttemptFails(e)
  \/ \E threw \in BOOLEAN : OnRetrySettles(threw)
  \/ SleepEnds

SpecRetry == RetryInit /\ [][NextRetry]_vars

\* -------------------------------------------------------- retryIf steps
\* retryIf() is called: lines 86-98, up to the first `await operation()`
RetryIfStart ==
  /\ ri.pc = "start"
  /\ ri' = retryIfLoop(ri)
  /\ UNCHANGED restOfRetryIf

\* the awaited operation() resolved
RetryIfAttemptSucceeds ==
  /\ ri.pc = "operation"
  /\ ri' = retryIfReturn(ri)
  /\ UNCHANGED restOfRetryIf

\* the awaited operation() rejected with e
RetryIfAttemptFails(e) ==
  /\ ri.pc = "operation"
  /\ ri' = retryIfCatch(ri, e)
  /\ UNCHANGED restOfRetryIf

\* line 109: the awaited shouldRetry(error, attempt) resolved
ShouldRetrySettles ==
  /\ ri.pc = "shouldRetry"
  /\ ri' = retryIfDecide(ri, ri.lastError \in ri.retryable)
  /\ UNCHANGED restOfRetryIf

\* line 109: shouldRetry threw; the catch block has no handler of its own,
\* so retryIf rejects with the callback's error
ShouldRetryThrows ==
  /\ ri.pc = "shouldRetry"
  /\ ri' = [ri EXCEPT !.pc = "done", !.outcome = "threw",
                      !.thrown = PredicateError]
  /\ UNCHANGED restOfRetryIf

\* line 124: the sleep is over; attempt++ and the loop test of line 96
RetryIfSleepEnds ==
  /\ ri.pc = "sleep"
  /\ ri' = retryIfLoop([ri EXCEPT !.attempt = @ + 1])
  /\ UNCHANGED restOfRetryIf

\* the breaker and its clock at rest
BreakerIdle ==
  /\ now = 0
  /\ config = [circuitBreakerThreshold |-> 1, circuitBreakerTimeout |-> Cooldown]
  /\ breakers = <<>>
  /\ calls = EmptyBag
  /\ hist = [s \in Services |-> HistInit]
  /\ last = [kind |-> "init", call |-> NoCall, outcome |-> "none", pre |-> <<>>]

RetryIfInit ==
  /\ BreakerIdle
  /\ rt = NoRetry
  /\ \E m \in 0..MaxRetries, b \in BaseDelays, d \in MaxDelays,
        p \in SUBSET Errors : ri = RetryIfCall(m, b, d, p)
  /\ tm = NoTimeout
  /\ wf = NoWorkflow
  /\ twin = NoWorkflow
  /\ tl = NoTool
  /\ bt = NoBudget

NextRetryIf ==
  \/ RetryIfStart
  \/ RetryIfAttemptSucceeds
  \/ \E e \in Errors : RetryIfAttemptFails(e)
  \/ ShouldRetrySettles
  \/ ShouldRetryThrows
  \/ RetryIfSleepEnds

SpecRetryIf == RetryIfInit /\ [][NextRetryIf]_vars

\* ---------------------------------------------------- withTimeout steps
\* withTimeout() is called: lines 18-37, the timer is set, operation() is
\* called, and the call waits for the race
WithTimeoutStart ==
  /\ tm.pc = "start"
  /\ tm' = [tm EXCEPT !.pc = "racing", !.timer = "armed", !.op = "pending"]
  /\ UNCHANGED restOfTimeout

\* the operation resolves, before or after the timer fired
OperationResolves ==
  /\ tm.op = "pending"
  /\ tm' = raceSettles(
             operationResolved([tm EXCEPT !.op = "resolved",
                                          !.opAt = tm.elapsed,
                                          !.opGave = Value]),
             "returned", Value, "none")
  /\ UNCHANGED restOfTimeout

\* the operation rejects with e, before or after the timer fired
OperationRejects(e) ==
  /\ tm.op = "pending"
  /\ tm' = raceSettles([tm EXCEPT !.op = "rejected", !.opAt = tm.elapsed,
                                  !.opGave = e],
                       "threw", "none", e)
  /\ UNCHANGED restOfTimeout

\* lines 25-32: the timer callback runs, not before timeoutMs has elapsed
TimerFires ==
  /\ tm.timer = "armed"
  /\ tm.elapsed >= tm.timeoutMs
  /\ tm' = raceSettles([tm EXCEPT !.timer = "fired", !.didTimeout = TRUE,
                                  !.firedAt = tm.elapsed],
                       "threw", "none", TimeoutError(tm.timeoutMs, tm.context))
  /\ UNCHANGED restOfTimeout

\* time passes while the call, or its abandoned operation, is pending
TimePasses ==
  /\ tm.pc # "start"
  /\ tm.elapsed < MaxElapsed
  /\ tm' = [tm EXCEPT !.elapsed = @ + 1]
  /\ UNCHANGED restOfTimeout

TimeoutInit ==
  /\ BreakerIdle
  /\ rt = NoRetry
  /\ ri = NoRetryIf
  /\ \E b \in 1..MaxBudget, c \in Contexts : tm = WithTimeoutCall(b, c)
  /\ wf = NoWorkflow
  /\ twin = NoWorkflow
  /\ tl = NoTool
  /\ bt = NoBudget

NextTimeout ==
  \/ WithTimeoutStart
  \/ OperationResolves
  \/ \E e \in Errors : OperationRejects(e)
  \/ TimerFires
  \/ TimePasses

SpecTimeout == TimeoutInit /\ [][NextTimeout]_vars

\* ------------------------------------------- withTimeoutAndFallback steps
\* a step of withTimeout that takes it to c: when it settles the race, the
\* catch block or the return of withTimeoutAndFallback follows
Guarded(c) ==
  /\ tm' = IF ~tm.race /\ c.race THEN withTimeoutSettled(c) ELSE c
  /\ UNCHANGED restOfTimeout

\* withTimeoutAndFallback is called: withTimeout arms its timer and calls
\* the operation
GuardStart ==
  /\ tm.pc = "start"
  /\ Guarded([tm EXCEPT !.pc = "racing", !.timer = "armed", !.op = "pending",
                        !.guard.pc = "withTimeout"])

\* the operation resolves, before or after the timer fired
GuardOperationResolves ==
  /\ tm.op = "pending"
  /\ Guarded(raceSettles(
               operationResolved([tm EXCEPT !.op = "resolved",
                                            !.opAt = tm.elapsed,
                                            !.opGave = Value]),
               "returned", Value, "none"))

\* the operation rejects with e, before or after the timer fired
GuardOperationRejects(e) ==
  /\ tm.op = "pending"
  /\ Guarded(raceSettles([tm EXCEPT !.op = "rejected", !.opAt = tm.elapsed,
                                    !.opGave = e],
                         "threw", "none", e))

\* the timer callback runs, not before timeoutMs has elapsed
GuardTimerFires ==
  /\ tm.timer = "armed"
  /\ tm.elapsed >= tm.timeoutMs
  /\ Guarded(raceSettles([tm EXCEPT !.timer = "fired", !.didTimeout = TRUE,
                                    !.firedAt = tm.elapsed],
                         "threw", "none",
                         TimeoutError(tm.timeoutMs, tm.context)))

\* time passes
GuardTimePasses ==
  /\ tm.pc # "start"
  /\ tm.elapsed < MaxElapsed
  /\ Guarded([tm EXCEPT !.elapsed = @ + 1])

\* the fallback resolves
FallbackResolves ==
  /\ tm.guard.pc = "fallback"
  /\ tm' = fallbackResolved(tm)
  /\ UNCHANGED restOfTimeout

\* the fallback rejects
FallbackRejects ==
  /\ tm.guard.pc = "fallback"
  /\ tm' = fallbackRejected(tm, FallbackError)
  /\ UNCHANGED restOfTimeout

\* the errors of the operation: those of FetchErrors, and an error that
\* carries the code TIMEOUT itself (a withTimeout inside the operation)
OperationErrors == FetchErrors \cup {TimeoutError(0, "Web scraping")}

NextGuard ==
  \/ GuardStart
  \/ GuardOperationResolves
  \/ \E e \in OperationErrors : GuardOperationRejects(e)
  \/ GuardTimerFires
  \/ GuardTimePasses
  \/ FallbackResolves
  \/ FallbackRejects

SpecGuard == TimeoutInit /\ [][NextGuard]_vars

\* ------------------------------------------------------- workflow steps
\* workflow.execute() is called
WorkflowStart ==
  /\ wf.pc = "start"
  /\ wf' = execute(wf)
  /\ UNCHANGED restOfWorkflow

\* a search of the running item k settles. The budgeted search tool
\* (part_010 lines 40-51) and deterministicChannelReport (line 59) call
\* search() with the fallback enabled and without a try/catch of their own:
\* an error leaving search() would end the research
SearchSettles(k, executed) ==
  /\ k \in 1..wf.n
  /\ wf.items[k].status = "running"
  /\ LET r == search(TRUE, executed) IN
        wf' = IF r = "threw" THEN researchSettled(wf, k, "SEARCH_ERROR")
              ELSE [wf EXCEPT !.items[k].search = @ \cup {r}]
  /\ UNCHANGED restOfWorkflow

\* the research of item k returns its report
ResearchResolves(k) ==
  /\ k \in 1..wf.n
  /\ wf.items[k].status = "running"
  /\ wf' = researchSettled(wf, k, "none")
  /\ UNCHANGED restOfWorkflow

\* the research of item k throws e
ResearchRejects(k, e) ==
  /\ k \in 1..wf.n
  /\ wf.items[k].status = "running"
  /\ wf' = researchSettled(wf, k, e)
  /\ UNCHANGED restOfWorkflow

\* the research of the custom agent returns, or throws e
CustomSettles(e) ==
  /\ wf.pc = "custom"
  /\ wf' = customSettled(wf, e)
  /\ UNCHANGED restOfWorkflow

\* a completion of the planner arrives
PlannerResponds(out) ==
  /\ wf.pc \in {"plan1", "plan2"}
  /\ wf' = plannerResponded(wf, out)
  /\ UNCHANGED restOfWorkflow

\* llm.invoke of the planner throws e
PlannerThrows(e) ==
  /\ wf.pc \in {"plan1", "plan2"}
  /\ wf' = synthesisThrows(wf, e)
  /\ UNCHANGED restOfWorkflow

\* writeOneSection returns the text of the section, which may be empty
SectionWritten(empty) ==
  /\ wf.pc = "write"
  /\ wf' = sectionWritten(wf, IF empty THEN <<>> ELSE <<wf.written + 1>>)
  /\ UNCHANGED restOfWorkflow

\* writeOneSection throws e
WriterThrows(e) ==
  /\ wf.pc = "write"
  /\ wf' = synthesisThrows(wf, e)
  /\ UNCHANGED restOfWorkflow

WorkflowInit ==
  /\ BreakerIdle
  /\ rt = NoRetry
  /\ ri = NoRetryIf
  /\ tm = NoTimeout
  /\ \E n \in 0..MaxItems, c \in 0..1, d \in Durations, det \in BOOLEAN,
        l \in 1..MaxLimit : wf = WorkflowCall(n, c, d, det, l)
  /\ twin = NoWorkflow
  /\ tl = NoTool
  /\ bt = NoBudget

NextWorkflow ==
  \/ WorkflowStart
  \/ \E k \in 1..MaxItems : ResearchResolves(k)
  \/ \E k \in 1..MaxItems, e \in ResearchErrors : ResearchRejects(k, e)
  \/ \E e \in ResearchErrors \cup {"none"} : CustomSettles(e)
  \/ \E out \in LlmOutputs : PlannerResponds(out)
  \/ \E e \in ResearchErrors : PlannerThrows(e)
  \/ \E empty \in BOOLEAN : SectionWritten(empty)
  \/ \E e \in ResearchErrors : WriterThrows(e)

SpecWorkflow == WorkflowInit /\ [][NextWorkflow]_vars

\* a context whose channel list may name a channel more than once:
\* setChannels (part_005 lines 30-42) drops unknown ids but keeps repeated
\* ones, as `--channels tech,tech` gives them
ChannelsInit ==
  /\ BreakerIdle
  /\ rt = NoRetry
  /\ ri = NoRetryIf
  /\ tm = NoTimeout
  /\ \E n \in 1..MaxWatched, c \in 0..1, l \in 1..2 :
       \E ids \in [1..n -> 1..MaxWatched] :
          wf = [WorkflowCall(n, c, 5, FALSE, l) EXCEPT !.ids = ids]
  /\ twin = NoWorkflow
  /\ tl = NoTool
  /\ bt = NoBudget

SpecChannels == ChannelsInit /\ [][NextWorkflow]_vars

\* the group of the round is empty: `await Promise.all([])` resumes the loop
EmptyBatchSettles ==
  /\ wf.pc = "batch"
  /\ batchOf(wf) = {}
  /\ wf' = emptyBatchSettled(wf)
  /\ UNCHANGED restOfWorkflow

\* the configuration supplies parseInt(CONCURRENCY_LIMIT, 10) as it is
\* (part_004 lines 170-172): any integer, here -1, 0 and 1..MaxLimit
BatchInit ==
  /\ BreakerIdle
  /\ rt = NoRetry
  /\ ri = NoRetryIf
  /\ tm = NoTimeout
  /\ \E n \in 1..MaxWatched, c \in 0..1, det \in BOOLEAN,
        l \in (0 - 1)..MaxLimit : wf = WorkflowCall(n, c, 5, det, l)
  /\ twin = NoWorkflow
  /\ tl = NoTool
  /\ bt = NoBudget

NextBatch ==
  \/ NextWorkflow
  \/ EmptyBatchSettles

\* every research that is running settles, and the event loop runs the
\* continuation of a promise that has resolved
SpecBatch ==
  /\ BatchInit
  /\ [][NextBatch]_vars
  /\ \A k \in 1..MaxItems : WF_vars(ResearchResolves(k))
  /\ WF_vars(EmptyBatchSettles)

\* three channels; every Tavily call made for channel 2 fails (the breaker
\* rethrows the error or, once open, answers with the fallback), the calls
\* for channels 1 and 3 succeed unless the shared circuit is open, and no
\* other remote call fails
ScenarioInit ==
  /\ BreakerIdle
  /\ rt = NoRetry
  /\ ri = NoRetryIf
  /\ tm = NoTimeout
  /\ \E d \in {1, 30}, det \in BOOLEAN, l \in 1..MaxLimit :
        wf = WorkflowCall(3, 0, d, det, l)
  /\ twin = NoWorkflow
  /\ tl = NoTool
  /\ bt = NoBudget

NextScenario ==
  \/ WorkflowStart
  \/ \E executed \in {"threw", "fallback"} : SearchSettles(2, executed)
  \/ \E k \in {1, 3}, executed \in {"results", "fallback"} :
        SearchSettles(k, executed)
  \/ \E k \in 1..3 : ResearchResolves(k)
  \/ \E s \in 1..MaxSections : PlannerResponds([json |-> TRUE, sections |-> s])
  \/ \E empty \in BOOLEAN : SectionWritten(empty)

SpecScenario == ScenarioInit /\ [][NextScenario]_vars

\* ------------------------------------------- the workflow and its twin
\* the same step, with the same outcome of the remote call, in the workflow
\* with callbacks and in its twin without
Both(observed, unobserved) ==
  /\ wf' = observed
  /\ twin' = unobserved
  /\ UNCHANGED restOfObserved

ObservedStart ==
  /\ wf.pc = "start"
  /\ Both(execute(wf), execute(twin))

ObservedResearch(k, e) ==
  /\ k \in 1..wf.n
  /\ wf.items[k].status = "running"
  /\ Both(researchSettled(wf, k, e), researchSettled(twin, k, e))

ObservedCustom(e) ==
  /\ wf.pc = "custom"
  /\ Both(customSettled(wf, e), customSettled(twin, e))

ObservedPlanner(out) ==
  /\ wf.pc \in {"plan1", "plan2"}
  /\ Both(plannerResponded(wf, out), plannerResponded(twin, out))

ObservedSection ==
  /\ wf.pc = "write"
  /\ Both(sectionWritten(wf, <<wf.written + 1>>), sectionWritten(twin, <<twin.written + 1>>))

ObservedSynthesisThrows(e) ==
  /\ wf.pc \in {"plan1", "plan2", "write"}
  /\ Both(synthesisThrows(wf, e), synthesisThrows(twin, e))

\* registerAll(w, cbs): onProgress called for each callback of cbs in order
RECURSIVE registerAll(_, _)
registerAll(w, cbs) ==
  IF cbs = <<>> THEN w ELSE registerAll(onProgress(w, Head(cbs)), Tail(cbs))

\* the sequences of at most MaxCallbacks callbacks
CallbackLists ==
  UNION {[1..m -> CallbackKinds] : m \in 0..MaxCallbacks}

ObservedInit ==
  /\ BreakerIdle
  /\ rt = NoRetry
  /\ ri = NoRetryIf
  /\ tm = NoTimeout
  /\ tl = NoTool
  /\ bt = NoBudget
  /\ \E n \in 0..MaxWatched, c \in 0..1, d \in {0, 30}, l \in 1..2,
        cbs \in CallbackLists :
        /\ wf = registerAll(WorkflowCall(n, c, d, FALSE, l), cbs)
        /\ twin = WorkflowCall(n, c, d, FALSE, l)

NextObserved ==
  \/ ObservedStart
  \/ \E k \in 1..MaxWatched, e \in ResearchErrors \cup {"none"} :
        ObservedResearch(k, e)
  \/ \E e \in ResearchErrors \cup {"none"} : ObservedCustom(e)
  \/ \E out \in LlmOutputs : ObservedPlanner(out)
  \/ ObservedSection
  \/ \E e \in ResearchErrors : ObservedSynthesisThrows(e)

SpecObserved == ObservedInit /\ [][NextObserved]_vars

\* --------------------------------------------------- search / scrape steps
restOfTool == <<config, calls, hist, last, wf, twin, bt>>

\* the bundle of the current state, and the step that leads to bundle x
Current ==
  Bundle(tl, getBreaker(breakers, serviceOf(tl.tool), config, now)[serviceOf(tl.tool)],
         rt, ri, tm, now)

Becomes(x) ==
  /\ tl' = x.tl
  /\ breakers' = [getBreaker(breakers, serviceOf(tl.tool), config, now)
                    EXCEPT ![serviceOf(tl.tool)] = x.b]
  /\ rt' = x.rt
  /\ ri' = x.ri
  /\ tm' = x.tm
  /\ UNCHANGED <<now, restOfTool>>

\* the tool is called, with or without the fallback, when the previous call
\* has returned
ToolEnter(useFallback) ==
  /\ tl.pc \in {"start", "done"}
  /\ Current.b.successCount < MaxSuccess
  /\ Current.b.failureCount < MaxCount
  /\ Becomes(toolEntered([Current EXCEPT !.tl = ToolCall(tl.tool, useFallback),
                                         !.rt = NoRetry, !.ri = NoRetryIf,
                                         !.tm = NoTimeout]))

\* the fetch of the current attempt resolves with usable content
FetchResolves ==
  /\ tl.pc = "attempt"
  /\ Becomes(attemptSettled(Current,
       raceSettles(operationResolved([tm EXCEPT !.op = "resolved",
                                                !.opAt = tm.elapsed,
                                                !.opGave = Value]),
                   "returned", Value, "none")))

\* the fetch of the current attempt fails with e
FetchRejects(e) ==
  /\ tl.pc = "attempt"
  /\ Becomes(attemptSettled(Current,
       raceSettles([tm EXCEPT !.op = "rejected", !.opAt = tm.elapsed,
                              !.opGave = e],
                   "threw", "none", e)))

\* the timer of the current attempt fires
AttemptTimesOut ==
  /\ tl.pc = "attempt"
  /\ tm.timer = "armed"
  /\ tm.elapsed >= tm.timeoutMs
  /\ Becomes(attemptSettled(Current,
       raceSettles([tm EXCEPT !.timer = "fired", !.didTimeout = TRUE,
                              !.firedAt = tm.elapsed],
                   "threw", "none", TimeoutError(tm.timeoutMs, tm.context))))

\* time passes while the attempt is pending
AttemptTimePasses ==
  /\ tl.pc = "attempt"
  /\ tm.elapsed < tm.timeoutMs
  /\ tm' = [tm EXCEPT !.elapsed = @ + 1]
  /\ UNCHANGED <<breakerVars, rt, ri, wf, twin, tl, bt>>

\* retryIf line 109: the predicate answers
ShouldRetryAnswers ==
  /\ tl.pc = "shouldRetry"
  /\ Becomes(shouldRetryAnswered(Current))

\* the sleep between two attempts is over: attempt++ and the loop test
ToolSleepEnds ==
  /\ tl.pc = "sleep"
  /\ Becomes(nextAttempt([Current EXCEPT !.rt.attempt = @ + 1,
                                         !.ri.attempt = @ + 1]))

\* the clock of the breaker advances
ToolTick ==
  /\ now < MaxTime
  /\ now' = now + 1
  /\ UNCHANGED <<config, breakers, calls, hist, last, rt, ri, tm, wf, twin, tl,
                 bt>>

ToolInit ==
  /\ BreakerInit
  /\ rt = NoRetry
  /\ ri = NoRetryIf
  /\ tm = NoTimeout
  /\ wf = NoWorkflow
  /\ twin = NoWorkflow
  /\ \E tool \in {"search", "scrape"} : tl = ToolCall(tool, TRUE)
  /\ bt = NoBudget

NextTool ==
  \/ \E useFallback \in BOOLEAN : ToolEnter(useFallback)
  \/ FetchResolves
  \/ \E e \in FetchErrors : FetchRejects(e)
  \/ AttemptTimesOut
  \/ AttemptTimePasses
  \/ ShouldRetryAnswers
  \/ ToolSleepEnds
  \/ ToolTick

SpecTool == ToolInit /\ [][NextTool]_vars

\* ------------------------------------------ retryIf with isTransientError
\* retryIf(operation, retryPredicates.isTransientError, options) is called
ClassifyStart ==
  /\ ri.pc = "start"
  /\ ri' = retryIfLoop(ri)
  /\ UNCHANGED restOfRetryIf

\* the awaited operation() resolved
ClassifyAttemptSucceeds ==
  /\ ri.pc = "operation"
  /\ ri' = retryIfReturn(ri)
  /\ UNCHANGED restOfRetryIf

\* the awaited operation() rejected with e
ClassifyAttemptFails(e) ==
  /\ ri.pc = "operation"
  /\ ri' = retryIfCatch(ri, e)
  /\ UNCHANGED restOfRetryIf

\* retry.js line 109: isTransientError(error) answers
ClassifyAnswers ==
  /\ ri.pc = "shouldRetry"
  /\ ri' = retryIfDecide(ri, isTransientError(ri.lastError))
  /\ UNCHANGED restOfRetryIf

\* the sleep is over: attempt++ and the loop test
ClassifySleepEnds ==
  /\ ri.pc = "sleep"
  /\ ri' = retryIfLoop([ri EXCEPT !.attempt = @ + 1])
  /\ UNCHANGED restOfRetryIf

ClassifyInit ==
  /\ BreakerIdle
  /\ rt = NoRetry
  /\ \E m \in 1..2 : ri = RetryIfCall(m, 1, 10, {})
  /\ tm = NoTimeout
  /\ wf = NoWorkflow
  /\ twin = NoWorkflow
  /\ tl = NoTool
  /\ bt = NoBudget

NextClassify ==
  \/ ClassifyStart
  \/ ClassifyAttemptSucceeds
  \/ \E e \in ClassifiedErrors : ClassifyAttemptFails(e)
  \/ ClassifyAnswers
  \/ ClassifySleepEnds

SpecClassify == ClassifyInit /\ [][NextClassify]_vars

\* ---------------------------------------------------------------- claims
\* the service, and its breaker before and after the step just taken
Svc == last.call.service
Known == Svc \in DOMAIN last.pre
Pre == last.pre[Svc]
Cur == breakers[Svc]
\* the call of the step just taken is in flight
Pending == last.call \in InFlight

\* the step just taken was an execute call that found the circuit OPEN
EnteredOpen == last.kind = "enter" /\ Known /\ Pre.state = STATES.OPEN

\* the execute call just made was blocked: the operation was not invoked, and
\* the caller is given the fallback's result or the circuit-open error
Blocked ==
  /\ ~last.call.invoked
  /\ IF last.call.fb
     THEN last.outcome = "none" /\ last.call.pc = "fallback" /\ Pending
     ELSE last.outcome = "circuit_open"

\* C1: when the N-th failure in a row (N = threshold, no success or reset in
\* between) is recorded, the breaker is OPEN; an execute call made after that,
\* before the cooldown has expired, is blocked: the operation is not invoked
\* and the caller gets the fallback's result or the circuit-open error.
C1_ThresholdOpens ==
  /\ (last.kind = "failure" /\ hist[Svc].streak >= Cur.threshold)
        => Cur.state = STATES.OPEN
  /\ (EnteredOpen /\ hist[Svc].streak >= Pre.threshold
        /\ now < hist[Svc].openedAt + Pre.timeout) => Blocked
  /\ (last.kind = "fallback" /\ ~last.call.invoked) => last.outcome = "fallback"

C1_Witness ==
  /\ EnteredOpen
  /\ Pre.threshold = 2 /\ hist[Svc].streak = 2 /\ Pre.failureCount = 2
  /\ now < hist[Svc].openedAt + Pre.timeout
  /\ ~last.call.invoked /\ last.outcome = "circuit_open"

\* C2: while the breaker has been OPEN since time T and nothing has settled on
\* it since, an execute call before T + cooldown is blocked and leaves the
\* breaker alone, and an execute call at T + cooldown or later moves it to
\* HALF_OPEN and invokes the operation.
C2_CooldownGate ==
  (EnteredOpen /\ ~hist[Svc].settled) =>
     IF now < hist[Svc].openedAt + Pre.timeout
     THEN Blocked /\ Cur = Pre
     ELSE /\ last.call.invoked /\ last.call.startState = STATES.HALF_OPEN
          /\ Cur.state = STATES.HALF_OPEN
          /\ last.call.pc = "operation" /\ Pending

C2_Witness ==
  /\ EnteredOpen /\ ~hist[Svc].settled
  /\ now = hist[Svc].openedAt + Pre.timeout
  /\ Cur.state = STATES.HALF_OPEN /\ last.call.pc = "operation" /\ Pending

\* C3 (as claimed): when a call whose operation was invoked while the breaker
\* was HALF_OPEN succeeds, the breaker is CLOSED with both counters 0; when it
\* fails, the breaker is OPEN with nextAttemptTime = now + cooldown.
C3_ProbeOutcomeDecides ==
  /\ (last.kind = "success" /\ last.call.startState = STATES.HALF_OPEN)
        => /\ Cur.state = STATES.CLOSED
           /\ Cur.failureCount = 0 /\ Cur.successCount = 0
  /\ (last.kind = "failure" /\ last.call.startState = STATES.HALF_OPEN)
        => /\ Cur.state = STATES.OPEN
           /\ Cur.nextAttemptTime = now + Cur.timeout

\* C4: an execute call that finds the breaker OPEN with now < nextAttemptTime
\* does not invoke the operation, gives the caller the fallback's result (with
\* a fallback) or the circuit-open error (without), and leaves the breaker's
\* state, failure count and nextAttemptTime as they were.
C4_BlockedCallLeavesBreaker ==
  /\ (EnteredOpen /\ now < Pre.nextAttemptTime) => (Blocked /\ Cur = Pre)
  /\ (last.kind = "fallback" /\ ~last.call.invoked)
        => (last.outcome = "fallback" /\ breakers = last.pre)

C4_Witness ==
  /\ last.kind = "fallback" /\ ~last.call.invoked /\ last.outcome = "fallback"
  /\ Cur.state = STATES.OPEN /\ now < Cur.nextAttemptTime
  /\ Cur = Pre

\* the calls on service s whose operation was invoked while the breaker was
\* HALF_OPEN and has not settled yet
ProbesInFlight(s) ==
  LET probes == {k \in InFlight : /\ k.pc = "operation" /\ k.service = s
                                  /\ k.startState = STATES.HALF_OPEN}
  IN BagCardinality([k \in probes |-> calls[k]])

C6_SingleTransition ==
  \A s \in DOMAIN breakers :
     /\ hist[s].probes <= 1
     /\ breakers[s].state = STATES.HALF_OPEN => hist[s].probes = 1

C6_Witness ==
  /\ "tavily" \in DOMAIN breakers
  /\ BagCardinality(calls) = 2
  /\ \A k \in InFlight : k.pc = "operation" /\ k.service = "tavily"
  /\ breakers["tavily"].state = STATES.HALF_OPEN
  /\ hist["tavily"].probes = 1

\* C7 (as claimed): state = OPEN iff (now < nextAttemptTime or a probe is
\* pending), and the breaker leaves OPEN only at a time now >= nextAttemptTime.
C7_OpenIffCooling ==
  /\ \A s \in DOMAIN breakers :
        breakers[s].state = STATES.OPEN
           <=> (now < breakers[s].nextAttemptTime \/ ProbesInFlight(s) > 0)
  /\ \A s \in DOMAIN last.pre :
        (last.pre[s].state = STATES.OPEN /\ breakers[s].state # STATES.OPEN)
           => now >= last.pre[s].nextAttemptTime

\* C7 (amended): now < nextAttemptTime implies state = OPEN unless reset()
\* ended the cooldown early; the breaker leaves OPEN only through an execute
\* call at now >= nextAttemptTime (to HALF_OPEN) or through reset (to CLOSED).
C7_OpenWhileCooling ==
  /\ \A s \in DOMAIN breakers :
        now < breakers[s].nextAttemptTime
           => (breakers[s].state = STATES.OPEN \/ hist[s].cut)
  /\ \A s \in DOMAIN last.pre :
        (last.pre[s].state = STATES.OPEN /\ breakers[s].state # STATES.OPEN)
           => \/ /\ last.kind = "enter" /\ Svc = s
                 /\ breakers[s].state = STATES.HALF_OPEN
                 /\ now >= last.pre[s].nextAttemptTime
              \/ last.kind = "reset" /\ breakers[s].state = STATES.CLOSED

C7_Witness ==
  /\ "tavily" \in DOMAIN breakers
  /\ breakers["tavily"].state = STATES.OPEN
  /\ now >= breakers["tavily"].nextAttemptTime
  /\ calls = EmptyBag
  /\ last.kind = "tick"

\* C8: a success recorded while the breaker is CLOSED lowers the failure
\* count by exactly 1 when it is positive and leaves it at 0 otherwise; the
\* count is never negative.
C8_SuccessDecays ==
  /\ (last.kind = "success" /\ Pre.state = STATES.CLOSED)
        => /\ Cur.state = STATES.CLOSED
           /\ Cur.failureCount =
                 IF Pre.failureCount > 0 THEN Pre.failureCount - 1 ELSE 0
  /\ \A s \in DOMAIN breakers : breakers[s].failureCount >= 0

C8_Witness ==
  /\ last.kind = "success" /\ Pre.state = STATES.CLOSED
  /\ Pre.failureCount = 2 /\ Cur.failureCount = 1 /\ Cur.state = STATES.CLOSED

\* C9: getBreaker adds a breaker to the registry only for a name it has not
\* seen, and hands out the breaker already there otherwise; a step of an
\* execute call on one service leaves every other service's breaker, and its
\* absence, as it was.
C9_RegistryIsolation ==
  LET callStep == last.kind \in {"enter", "success", "failure", "fallback"} IN
  /\ callStep =>
        \A s \in Services \ {Svc} :
           IF s \in DOMAIN last.pre
           THEN s \in DOMAIN breakers /\ breakers[s] = last.pre[s]
           ELSE s \notin DOMAIN breakers
  /\ DOMAIN breakers =
        DOMAIN last.pre \cup (IF last.kind = "enter" THEN {Svc} ELSE {})
  /\ (last.kind = "enter" /\ ~Known) =>
        /\ Cur.state = STATES.CLOSED /\ Cur.failureCount = 0
        /\ Cur.successCount = 0 /\ Cur.nextAttemptTime = now
  /\ (last.kind = "enter" /\ Known) =>
        /\ Cur.failureCount = Pre.failureCount
        /\ Cur.nextAttemptTime = Pre.nextAttemptTime
        /\ Cur.state = IF Pre.state = STATES.OPEN /\ last.call.invoked
                       THEN STATES.HALF_OPEN ELSE Pre.state

C9_Witness ==
  /\ last.kind = "failure" /\ Svc = "tavily"
  /\ Cur.state = STATES.OPEN /\ Pre.state = STATES.CLOSED
  /\ "scraping" \in DOMAIN breakers
  /\ breakers["scraping"] = last.pre["scraping"]
  /\ breakers["scraping"].state = STATES.CLOSED
  /\ breakers["scraping"].failureCount = 1

\* C10: retry calls the operation at most maxRetries times; when it returns,
\* it returns the result of the attempt that succeeded, every attempt before
\* it failed and none was made after it; when it throws after at least one
\* attempt, all maxRetries attempts failed and it throws the last one's error.
C10_RetryBounded ==
  /\ rt.invoked <= rt.maxRetries
  /\ rt.outcome = "returned" =>
        /\ rt.pc = "done"
        /\ rt.result = rt.invoked
        /\ Len(rt.errors) = rt.invoked - 1
  /\ (rt.outcome = "threw" /\ rt.invoked > 0) =>
        /\ rt.pc = "done"
        /\ rt.invoked = rt.maxRetries
        /\ Len(rt.errors) = rt.maxRetries
        /\ rt.thrown = rt.errors[Len(rt.errors)]

C10_Witness ==
  /\ rt.outcome = "threw" /\ rt.maxRetries = 3 /\ rt.invoked = 3
  /\ rt.errors = <<"ECONNRESET", "HTTP_500", "TIMEOUT">>
  /\ rt.thrown = "TIMEOUT"

\* C11: the k-th wait of a retry call, the one before attempt k + 1, lasts
\* min(baseDelay * 2^(k-1), maxDelay); a call makes at most maxRetries - 1
\* waits, one between two attempts, and none after its last attempt.
C11_BackoffSchedule ==
  /\ \A k \in 1..Len(rt.waits) :
        rt.waits[k] = Min(rt.baseDelay * Pow2(k - 1), rt.maxDelay)
  /\ Len(rt.waits) <= Max(0, rt.maxRetries - 1)
  /\ Len(rt.waits) <= rt.invoked
  /\ (rt.pc = "done" /\ rt.invoked > 0) => Len(rt.waits) = rt.invoked - 1

C11_Witness ==
  /\ rt.outcome = "threw" /\ rt.maxRetries = 4 /\ rt.invoked = 4
  /\ rt.baseDelay = 1 /\ rt.maxDelay = 10
  /\ rt.waits = <<1, 2, 4>>

\* C12: when shouldRetry answers false for the error of an attempt, retryIf
\* throws that error at once: that attempt is the last call of the operation,
\* no wait follows it, whatever number of attempts remains.
C12_NonRetryableAborts ==
  \A k \in 1..Len(ri.verdicts) :
     ~ri.verdicts[k] =>
        /\ ri.pc = "done" /\ ri.outcome = "threw"
        /\ k = Len(ri.errors) /\ ri.thrown = ri.errors[k]
        /\ ri.invoked = k
        /\ Len(ri.waits) = k - 1

C12_Witness ==
  /\ ri.maxRetries = 3 /\ ri.retryable = scrapeShouldRetry
  /\ ri.errors = <<"HTTP_500", "HTTP_404">> /\ ri.verdicts = <<TRUE, FALSE>>
  /\ ri.invoked = 2 /\ ri.outcome = "threw" /\ ri.thrown = "HTTP_404"
  /\ Len(ri.waits) = 1

\* C13: a withTimeout call settles at most once. When the operation settles
\* before the timer has fired, which is so whenever it settles before the
\* budget has elapsed, the call returns the operation's value or throws the
\* operation's own error, and the timer is cancelled. When the timer fires
\* first, the call throws the TIMEOUT error with the budget and the label, and
\* what the operation produces later changes nothing.
C13_TimeoutRace ==
  /\ tm.settled <= 1
  /\ (tm.pc = "done") = (tm.settled = 1)
  /\ tm.pc = "done" => tm.timer \in {"cleared", "fired"}
  /\ (tm.opAt # Null /\ tm.opAt < tm.timeoutMs) => tm.firedAt = Null
  /\ (tm.op = "resolved" /\ tm.firedAt = Null) =>
        tm.outcome = "returned" /\ tm.result = tm.opGave /\ tm.timer = "cleared"
  /\ (tm.op = "rejected" /\ tm.firedAt = Null) =>
        tm.outcome = "threw" /\ tm.error = tm.opGave /\ tm.timer = "cleared"
  /\ tm.firedAt # Null =>
        /\ tm.outcome = "threw"
        /\ tm.error = TimeoutError(tm.timeoutMs, tm.context)
        /\ tm.firedAt >= tm.timeoutMs

C13_Witness ==
  /\ tm.timeoutMs = 1 /\ tm.context = "Web scraping"
  /\ tm.firedAt = 1 /\ tm.op = "resolved" /\ tm.opAt = 2
  /\ tm.outcome = "threw" /\ tm.settled = 1
  /\ tm.error = [code |-> "TIMEOUT", timeout |-> 1, context |-> "Web scraping"]

\* the stage of that name, as the progress tracker recorded it
Begun(name) == \E s \in 1..Len(wf.stages) : wf.stages[s].name = name
StageIs(name, status) ==
  \E s \in 1..Len(wf.stages) :
     wf.stages[s].name = name /\ wf.stages[s].status = status
Started == {k \in 1..wf.n : wf.items[k].status # "idle"}
Running == {k \in 1..wf.n : wf.items[k].status = "running"}
\* the batch runner has returned its result list
RunnerReturned == Begun("run_channel_agents") /\ wf.pc # "batch"

\* C14: when the batch runner has returned, every item has settled, the
\* result list has one entry per item, and entry k is the entry of item k.
C14_OneEntryPerItem ==
  RunnerReturned =>
     /\ Len(wf.results) = wf.n
     /\ \A k \in 1..wf.n :
           /\ wf.items[k].status = "settled"
           /\ wf.results[k] = wf.items[k].entry
           /\ wf.results[k].channelId = k
           /\ wf.results[k].status \in {"success", "failed"}

C14_Witness ==
  /\ RunnerReturned /\ wf.n = 3 /\ wf.limit = 2 /\ wf.outOfOrder
  /\ Len(wf.results) = 3
  /\ wf.results[1].status = "failed" /\ wf.results[2].status = "success"

C16_FailureStaysInItem ==
  /\ \A k \in 1..wf.n :
        wf.items[k].status = "settled" =>
           IF wf.items[k].threw = "none"
           THEN wf.items[k].entry.status = "success"
           ELSE /\ wf.items[k].entry.status = "failed"
                /\ wf.items[k].entry.channelId = k
                /\ wf.items[k].entry.report = generateAgentFallback(k)
                /\ wf.items[k].entry.error = wf.items[k].threw
  /\ ~StageIs("run_channel_agents", "failed")
  /\ (Started # {} /\ wf.pc # "batch") =>
        \A k \in 1..wf.n : /\ wf.items[k].status = "settled"
                            /\ wf.results[k] = wf.items[k].entry

C16_Witness ==
  /\ RunnerReturned /\ wf.n = 3 /\ wf.limit = 2
  /\ wf.items[1].threw = "LLM_ERROR" /\ wf.results[1].status = "failed"
  /\ wf.results[1].error = "LLM_ERROR"
  /\ wf.results[2].status = "success" /\ wf.results[3].status = "success"

\* C17: whichever researches fail, the research stage ends completed and
\* the plan stage is begun; when execute resolves, the report of every
\* channel is the entry of its item, with status failed and the fallback
\* report where the research threw; execute rejects only because of the
\* validation or the plan stage, and resolves when the plan stage completed.
C17_ResearchStageCompletes ==
  /\ RunnerReturned =>
        /\ StageIs("run_channel_agents", "completed")
        /\ wf.pc # "custom" => Begun("plan_and_write")
  /\ wf.outcome = "resolved" =>
        \A k \in 1..wf.n :
           /\ wf.channelReports[k] = wf.items[k].entry
           /\ wf.items[k].threw # "none" =>
                 /\ wf.channelReports[k].status = "failed"
                 /\ wf.channelReports[k].report = generateAgentFallback(k)
  /\ wf.outcome = "rejected" =>
        \/ wf.stages = <<[name |-> "validate_context", status |-> "in_progress"]>>
        \/ StageIs("plan_and_write", "failed")
  /\ (wf.pc = "done" /\ StageIs("plan_and_write", "completed")) =>
        wf.outcome = "resolved"

C17_Witness ==
  /\ wf.outcome = "resolved" /\ wf.n = 3
  /\ \A k \in 1..3 : wf.items[k].threw # "none"
                       /\ wf.channelReports[k].status = "failed"
  /\ StageIs("run_channel_agents", "completed")

\* C20: for a context without channel and custom request, or with a
\* duration outside 1..30, execute rejects with the validation error; only the
\* validation stage was begun and no agent, planner or writer was called.
InvalidContext ==
  (wf.n = 0 /\ wf.customRequests = 0) \/ wf.duration < 1 \/ wf.duration > 30

C20_ValidationAborts ==
  (InvalidContext /\ wf.pc # "start") =>
     /\ wf.pc = "done" /\ wf.outcome = "rejected"
     /\ wf.error = "Invalid user context"
     /\ \A s \in 1..Len(wf.stages) : wf.stages[s].name = "validate_context"
     /\ Started = {} /\ wf.custom = "none"
     /\ wf.llmCalls = 0 /\ wf.writerCalls = 0

C20_Witness ==
  /\ wf.n = 2 /\ wf.customRequests = 1 /\ wf.duration = 31
  /\ wf.pc = "done" /\ wf.outcome = "rejected"
  /\ wf.error = "Invalid user context" /\ Started = {}

TwiceMalformed ==
  Len(wf.completions) = 2 /\ ~wf.completions[1] /\ ~wf.completions[2]

C21_CustomFailureTolerated ==
  wf.customThrew # "none" =>
     /\ wf.customReport = [status |-> "failed", error |-> wf.customThrew]
     /\ StageIs("run_custom_agent", "completed")
     /\ Begun("plan_and_write")
     /\ wf.outcome = "rejected" => StageIs("plan_and_write", "failed")

C21_Witness ==
  /\ wf.customThrew \in ResearchErrors
  /\ wf.customReport.status = "failed"
  /\ wf.pc = "done" /\ wf.outcome = "resolved" /\ wf.finalScript

\* the last two events emitted
LastEvents ==
  IF Len(wf.events) < 2 THEN <<>>
  ELSE <<wf.events[Len(wf.events) - 1], wf.events[Len(wf.events)]>>

InProgress == {s \in 1..Len(wf.stages) : wf.stages[s].status = "in_progress"}

\* a step leaves every completed or failed stage as it is
TerminalStays ==
  \A s \in 1..Len(wf.stages) :
     wf.stages[s].status \in {"completed", "failed"} =>
        s <= Len(wf'.stages) /\ wf'.stages[s] = wf.stages[s]

\* C23: at every moment of a run at most one stage of the tracker is
\* in_progress, and a stage that is completed or failed never changes again.
C23_StageStatus ==
  [](Cardinality(InProgress) <= 1) /\ [][TerminalStays]_vars

C23_Witness ==
  /\ Len(wf.stages) = 4
  /\ \A s \in 1..3 : wf.stages[s].status = "completed"
  /\ wf.stages[4].status = "failed"

\* the position of a stage in execute
StageRank(name) ==
  CASE name = "validate_context" -> 1
    [] name = "run_channel_agents" -> 2
    [] name = "run_custom_agent" -> 3
    [] name = "plan_and_write" -> 4

\* C24: the stages begin in the order validate_context, run_channel_agents,
\* run_custom_agent, plan_and_write; a stage without work is skipped, and
\* when a stage begins every stage begun before it is completed.
C24_StageOrder ==
  /\ \A s, u \in 1..Len(wf.stages) :
        s < u => /\ StageRank(wf.stages[s].name) < StageRank(wf.stages[u].name)
                 /\ wf.stages[s].status = "completed"
  /\ Len(wf.stages) >= 1 => wf.stages[1].name = "validate_context"
  /\ Begun("run_channel_agents") => wf.n > 0
  /\ Begun("run_custom_agent") =>
        wf.customRequests > 0 /\ (wf.n > 0 => Begun("run_channel_agents"))
  /\ Begun("plan_and_write") =>
        /\ wf.n > 0 => Begun("run_channel_agents")
        /\ wf.customRequests > 0 => Begun("run_custom_agent")

C24_Witness ==
  /\ Len(wf.stages) = 4
  /\ wf.stages[4] = [name |-> "plan_and_write", status |-> "in_progress"]
  /\ wf.stages[3].name = "run_custom_agent"

\* the concatenation of a sequence of texts
RECURSIVE Flatten(_)
Flatten(ss) == IF ss = <<>> THEN <<>> ELSE Head(ss) \o Flatten(Tail(ss))

\* a script without its separators
NoSep(s) == SelectSeq(s, LAMBDA x : x # Sep)

\* C30: the sections are written one at a time in plan order, the i-th
\* writer call is given the concatenation of the texts of sections 1..i-1,
\* and finalScript is the concatenation of all section texts in plan order.
C30_SectionsAccumulate ==
  /\ Len(wf.inputs) = wf.writerCalls
  /\ Len(wf.texts) = wf.written
  /\ wf.writerCalls \in {wf.written, wf.written + 1}
  /\ wf.writerCalls <= wf.sections
  /\ \A i \in 1..Len(wf.texts) : wf.texts[i] \in {<<>>, <<i>>}
  /\ \A i \in 1..Len(wf.inputs) :
        NoSep(wf.inputs[i]) = Flatten(SubSeq(wf.texts, 1, i - 1))
  /\ wf.finalScript =>
        /\ wf.written = wf.sections
        /\ NoSep(wf.script) = Flatten(wf.texts)

C30_Witness ==
  /\ wf.finalScript
  /\ wf.script = <<1, Sep, 2, Sep, 3>>
  /\ wf.inputs = <<(<<>>), <<1>>, <<1, Sep, 2>> >>

\* the callback calls emit has to make for the events so far: every event,
\* in order, to every callback, in registration order
Deliveries(w) ==
  LET m == Len(w.callbacks) IN
  [p \in 1..(Len(w.events) * m) |->
     [cb |-> ((p - 1) % m) + 1, ev |-> ((p - 1) \div m) + 1]]

\* C28: when a callback throws on an event, every callback still receives
\* that event and all later events, in registration order, and the tracker
\* operation that emitted returns normally.
C28_ThrowingCallbackIsolated ==
  /\ wf.delivered = Deliveries(wf)
  /\ wf.escaped = "none"
  /\ wf.caught =
        Cardinality({p \in 1..Len(wf.delivered) :
                       wf.events[wf.delivered[p].ev].type
                         \in wf.callbacks[wf.delivered[p].cb]})

C28_Witness ==
  /\ wf.callbacks = <<Events, {}>>
  /\ wf.caught >= 3
  /\ wf.delivered[Len(wf.delivered)] = [cb |-> 2, ev |-> Len(wf.events)]
  /\ wf.pc = "done" /\ wf.outcome = "resolved"

\* the workflow as it is apart from its callbacks and the calls made to them
Unobserved(w) ==
  [w EXCEPT !.callbacks = <<>>, !.delivered = <<>>, !.caught = 0]

\* C29: for the same inputs and the same outcomes of the remote calls, the
\* stages, the events, the results and the outcome of the workflow are the
\* same with any callbacks registered, throwing ones included, as with none.
C29_CallbacksNeverGate == Unobserved(wf) = twin

C29_Witness ==
  /\ Len(wf.callbacks) = 2 /\ wf.caught >= 2
  /\ wf.pc = "done" /\ wf.outcome = "rejected"
  /\ StageIs("plan_and_write", "failed")
  /\ twin.pc = "done"

\* ------------------------------------------- claims about search and scrape
\* the breaker of the tool of the current call
ToolBreaker == Current.b

\* the last attempt of the current call failed
LastFailed ==
  Len(tl.attempts) >= 1 /\ tl.attempts[Len(tl.attempts)] # "ok"

\* what does not depend on the direction of the change of the failure count:
\* the breaker is consulted once, before any attempt; only the whole retry
\* loop is reported to it, once; every attempt runs under its own timer; a
\* timed-out attempt followed by a successful one is one success, no failure
Nesting ==
  /\ tl.pc # "start" => tl.consulted = 1 /\ tl.consultedAt = 0
  /\ tl.onSuccessCalls + tl.onFailureCalls <= 1
  /\ tl.pc \in {"attempt", "shouldRetry", "sleep"}
       => tl.onSuccessCalls + tl.onFailureCalls = 0
  /\ tl.pc = "done" /\ tl.fetches >= 1
       => tl.onSuccessCalls + tl.onFailureCalls = 1
  /\ tl.pc = "done" /\ tl.fetches = 0
       => tl.onSuccessCalls + tl.onFailureCalls = 0
  /\ tl.timers = tl.fetches
  /\ tl.pc = "attempt"
       => tm.pc = "racing" /\ tm.timer = "armed" /\ tm.elapsed <= tm.timeoutMs
  /\ tl.pc = "done" /\ tl.attempts = <<"timeout", "ok">>
       => tl.onSuccessCalls = 1 /\ tl.onFailureCalls = 0

\* C25 as stated: in one scrape or search call the breaker is consulted once
\* before any attempt, the retry loop runs inside the breaker's single
\* allowed call, each attempt is bounded by its own timeout, and the call
\* changes the breaker's failure count by at most 1, in either direction,
\* however many attempts fail
C25_CountChangesByOne ==
  /\ Nesting
  /\ tl.pc = "done"
       => /\ ToolBreaker.failureCount <= tl.before.failureCount + 1
          /\ tl.before.failureCount <= ToolBreaker.failureCount + 1

\* C25, amended: the same nesting, and one call raises the breaker's failure
\* count by at most 1 however many attempts fail; only a call whose attempts
\* all failed raises it, and a call that succeeded never does
C25_CountRisesByOne ==
  /\ Nesting
  /\ tl.pc = "done"
       => /\ ToolBreaker.failureCount <= tl.before.failureCount + 1
          /\ ToolBreaker.failureCount > tl.before.failureCount
               => tl.onFailureCalls = 1 /\ LastFailed

\* a call whose first attempt timed out and whose second attempt succeeded:
\* the breaker recorded one success, and its failure count went down
C25_Witness ==
  /\ tl.pc = "done"
  /\ tl.attempts = <<"timeout", "ok">>
  /\ tl.onSuccessCalls = 1
  /\ tl.onFailureCalls = 0
  /\ ToolBreaker.failureCount < tl.before.failureCount

\* the statuses the claim calls permanent, and the failures it calls transient
Permanent(e) == statusOf(e) \in {401, 403, 404, 451}

Transient(e) ==
  \/ e.code = "TIMEOUT"
  \/ e.code \in {"ECONNRESET", "ENOTFOUND", "ETIMEDOUT"}
  \/ textOf(e) \in {"network", "fetch"}
  \/ statusOf(e) = 429
  \/ statusOf(e) \in 500..599

C27_FallbackNeverThrows ==
  tl.pc = "done" /\ tl.useFallback =>
    /\ tl.result \in {"results", "fallback"}
    /\ tl.error = "none"
    /\ tl.result = "results" <=> (tl.fetches >= 1 /\ ~LastFailed)

\* a scrape call with the fallback enabled whose attempts timed out and
\* failed while the circuit stayed closed: breaker.execute threw, and scrape
\* returned fallback content
C27_Witness ==
  /\ tl.pc = "done"
  /\ tl.tool = "scrape"
  /\ tl.useFallback
  /\ tl.attempts = <<"timeout", "error">>
  /\ ToolBreaker.state = "CLOSED"
  /\ tl.result = "fallback"

\* ------------------------------- more claims about the circuit breaker
\* C35 (as claimed): while a breaker is OPEN, nextAttemptTime is the time OPEN
\* was entered plus the cooldown, whatever calls settle in the meantime.
C35_CooldownKept ==
  \A s \in DOMAIN breakers :
    breakers[s].state = STATES.OPEN
      => breakers[s].nextAttemptTime = hist[s].openedAt + breakers[s].timeout

\* C36 (as claimed): the breaker goes from HALF_OPEN to CLOSED only by the
\* success of a call whose operation was invoked while it was HALF_OPEN; the
\* success of a call invoked while CLOSED that settles in HALF_OPEN leaves the
\* state and the failure count as they were.
C36_OnlyProbeCloses ==
  /\ (Known /\ Pre.state = STATES.HALF_OPEN /\ Cur.state = STATES.CLOSED)
        => (last.kind = "success" /\ last.call.startState = STATES.HALF_OPEN)
  /\ (last.kind = "success" /\ Pre.state = STATES.HALF_OPEN
        /\ last.call.startState = STATES.CLOSED)
        => (Cur.state = STATES.HALF_OPEN /\ Cur.failureCount = Pre.failureCount)

\* C37: whatever calls and resets interleave, the failure count of a breaker
\* is never negative, and a CLOSED breaker has fewer failures than its
\* threshold.
C37_ClosedBelowThreshold ==
  \A s \in DOMAIN breakers :
    /\ breakers[s].failureCount >= 0
    /\ breakers[s].state = STATES.CLOSED
         => breakers[s].failureCount < breakers[s].threshold

\* a failure was just recorded, after a reset earlier on, and the breaker is
\* CLOSED one failure below a threshold of 2 or more
C37_Witness ==
  /\ last.kind = "failure"
  /\ Cur.state = STATES.CLOSED
  /\ Cur.threshold >= 2
  /\ Cur.failureCount = Cur.threshold - 1
  /\ hist[Svc].cut

\* C38: when the operation of a call with a fallback fails, the fallback is
\* called exactly if the breaker is OPEN once the failure is recorded; if the
\* breaker is still CLOSED the call throws the operation's error and the
\* fallback is not called.
C38_FallbackOnlyWhenOpen ==
  (last.kind = "failure" /\ last.call.fb) =>
    /\ Cur.state = STATES.OPEN
         <=> (last.outcome = "none"
                /\ [last.call EXCEPT !.pc = "fallback"] \in InFlight)
    /\ Cur.state = STATES.CLOSED => last.outcome = "error"

\* the failure of a call with a fallback left the breaker CLOSED: the call
\* threw the error of its operation
C38_Witness ==
  /\ last.kind = "failure" /\ last.call.fb
  /\ Cur.state = STATES.CLOSED /\ Cur.failureCount >= 1
  /\ last.outcome = "error"
  /\ calls = EmptyBag

\* ----------------------------------------- claims about retry and timeout
\* what the claim calls retryable: a network-reset error, a DNS error, a
\* timeout error (code ETIMEDOUT or the code TIMEOUT of withTimeout), HTTP 429
\* and HTTP 5xx; an error whose message names the network or fetch is counted
\* as a network error as well
ClaimedRetryable(e) ==
  \/ e.code \in {"ECONNRESET", "ENOTFOUND", "ETIMEDOUT", "TIMEOUT"}
  \/ textOf(e) \in {"network", "fetch"}
  \/ statusOf(e) = 429 \/ e.code = "RATE_LIMIT_EXCEEDED"
  \/ statusOf(e) \in 500..599

\* C32 (as claimed): the default transient-error predicate answers true for
\* every network-reset, DNS and timeout error (code ETIMEDOUT and code
\* TIMEOUT), HTTP 429 and HTTP 5xx, and false for every other error.
C32_TransientClassified ==
  \A i \in 1..Len(ri.verdicts) :
    ri.verdicts[i] = ClaimedRetryable(ri.errors[i])

\* C33: when the operation times out, withTimeoutAndFallback calls the
\* fallback once and returns what it returns; when the operation rejects with
\* an error that is not a timeout error, it rethrows that error and never
\* calls the fallback.
C33_FallbackOnTimeoutOnly ==
  /\ (tm.race /\ tm.outcome = "threw" /\ tm.error = TimeoutError(tm.timeoutMs, tm.context))
        => /\ tm.guard.fallbackCalls = 1
           /\ tm.guard.outcome = "returned" => tm.guard.result = FallbackValue
           /\ tm.guard.outcome = "threw" => tm.guard.error = FallbackError
  /\ (tm.race /\ tm.outcome = "threw" /\ tm.error.code # "TIMEOUT")
        => /\ tm.guard.fallbackCalls = 0
           /\ tm.guard.pc = "done" /\ tm.guard.outcome = "threw"
           /\ tm.guard.error = tm.error
  /\ (tm.race /\ tm.outcome = "returned")
        => /\ tm.guard.fallbackCalls = 0
           /\ tm.guard.outcome = "returned" /\ tm.guard.result = Value

\* the timer fired, the fallback's result was returned, and the abandoned
\* operation rejected afterwards without any effect
C33_Witness ==
  /\ tm.didTimeout /\ tm.guard.pc = "done"
  /\ tm.guard.outcome = "returned" /\ tm.guard.result = FallbackValue
  /\ tm.guard.fallbackCalls = 1
  /\ tm.op = "rejected" /\ tm.opGave = HttpError(500)


\* ------------------------------------------------ the budgeted tools
restOfBudget == <<breakerVars, rt, ri, tm, wf, twin, tl>>

\* the agent invokes the tool, while earlier invocations may be pending
ToolInvoked(name) ==
  /\ bt[name].invoked < MaxInvocations
  /\ bt' = [bt EXCEPT ![name] = budgetedFunc(@)]
  /\ UNCHANGED restOfBudget

\* a call of the underlying search() or scrape() settles, and the func
\* returns its result or throws its error
UnderlyingSettles(name) ==
  /\ bt[name].pending > 0
  /\ bt' = [bt EXCEPT ![name].pending = @ - 1]
  /\ UNCHANGED restOfBudget

BudgetInit ==
  /\ BreakerIdle
  /\ rt = NoRetry
  /\ ri = NoRetryIf
  /\ tm = NoTimeout
  /\ wf = NoWorkflow
  /\ twin = NoWorkflow
  /\ tl = NoTool
  /\ \E searchMax \in 0..MaxQuota, scrapeMax \in 0..MaxQuota :
        bt = getAllToolsWithBudget(searchMax, scrapeMax)

NextBudget ==
  \/ \E name \in {"search", "scrape"} : ToolInvoked(name)
  \/ \E name \in {"search", "scrape"} : UnderlyingSettles(name)

SpecBudget == BudgetInit /\ [][NextBudget]_vars

\* ------------------------------------------- more claims about the workflow
\* the entries of channelReports with the given status
ReportsWith(status) ==
  {id \in DOMAIN wf.channelReports : wf.channelReports[id].status = status}

\* C31 (as claimed): once the research stage is completed, channelReports has
\* one entry for each of the n channels of the context: totalChannels is n,
\* and it is successfulChannels + failedChannels.
C31_OneReportPerChannel ==
  StageIs("run_channel_agents", "completed") =>
    /\ Cardinality(DOMAIN wf.channelReports) = wf.n
    /\ Cardinality(DOMAIN wf.channelReports)
         = Cardinality(ReportsWith("success")) + Cardinality(ReportsWith("failed"))

\* the events after position p, up to the end
EventsAfter(p) == {q \in 1..Len(wf.events) : q > p}

\* C39 (as claimed): when execute has settled every stage begun is completed
\* or failed, and every stage_start event is followed by a stage_complete or
\* stage_failed event of that stage before the final complete or failed
\* event.
C39_EveryStageEnds ==
  wf.pc = "done" =>
    /\ \A s \in 1..Len(wf.stages) :
          wf.stages[s].status \in {"completed", "failed"}
    /\ \A p \in 1..Len(wf.events) :
          wf.events[p].type = "stage_start" =>
            \E q \in EventsAfter(p) :
              /\ wf.events[q].type \in {"stage_complete", "stage_failed"}
              /\ wf.events[q].stage = wf.events[p].stage
              /\ \E z \in EventsAfter(q) :
                    wf.events[z].type \in {"complete", "failed"}

\* C40 (as claimed): whatever integer the concurrency limit is, the batch
\* runner comes to an end, and when it has returned to a research stage that
\* completed there is one entry for each item.
C40_RunnerTerminates ==
  /\ (wf.pc = "batch") ~> (wf.pc # "batch")
  /\ [](StageIs("run_channel_agents", "completed") => Len(wf.results) = wf.n)

\* C34: for each of the two tools, the underlying function has been called
\* at most `max` times: it was called by the first `max` invocations, and
\* every further invocation was answered with the budget-exhausted message
\* without a call of the underlying function.
C34_BudgetEnforced ==
  \A name \in {"search", "scrape"} :
     LET t == bt[name] IN
       /\ t.calls <= t.max
       /\ t.calls = Min(t.invoked, t.max)
       /\ t.refused = t.invoked - t.calls

\* searches in flight while further searches are refused, and a scrape
\* budget of 0 that refuses the first scrape
C34_Witness ==
  /\ bt.search.max = 2 /\ bt.search.invoked = 4 /\ bt.search.refused = 2
  /\ bt.search.pending = 2
  /\ bt.scrape.max = 0 /\ bt.scrape.refused = 1

====
